---------------------------- MODULE Spec2Model ----------------------------
(***************************************************************************)
(* trustFall: the page-change monitor (src/trustFall).  Texts are          *)
(* sequences of one-character strings; a digest is the tagged text (SHA-256*)
(* taken as collision free).  The check workflow of main.py is modelled    *)
(* with the interleavings that its await points allow: every check_page    *)
(* call reads the page and its last snapshot, then fetches, then writes in *)
(* one SQLite transaction.  A statement that violates a foreign key raises *)
(* and the transaction is rolled back; a writer that waits for another     *)
(* transaction's lock is taken to get it ("database is locked" is left     *)
(* out).                                                                   *)
(***************************************************************************)
EXTENDS Integers, Sequences, FiniteSets, Bags, TLC

(***************************************************************************)
(* Text helpers (Python str operations used by fetcher.py and analyzer.py) *)
(***************************************************************************)
UpperChars ==
  <<"A","B","C","D","E","F","G","H","I","J","K","L","M",
    "N","O","P","Q","R","S","T","U","V","W","X","Y","Z">>

LowerChars ==
  <<"a","b","c","d","e","f","g","h","i","j","k","l","m",
    "n","o","p","q","r","s","t","u","v","w","x","y","z">>

\* str.lower() on one character
LowerChar(c) ==
  IF \E i \in 1..26 : UpperChars[i] = c
    THEN LowerChars[CHOOSE i \in 1..26 : UpperChars[i] = c]
    ELSE c

\* str.lower()
Lower(t) ==
  [i \in 1..Len(t) |-> LowerChar(t[i])]

\* Python's "p in t" on strings
IsSubstr(p, t) ==
  \E i \in 0..(Len(t) - Len(p)) : SubSeq(t, i + 1, i + Len(p)) = p

\* the characters str.strip() removes (of the model's alphabet)
IsSpace(c) ==
  c \in {" ", "\t", "\n"}

RECURSIVE LStrip(_)
LStrip(t) ==
  IF t # <<>> /\ IsSpace(Head(t)) THEN LStrip(Tail(t)) ELSE t

RECURSIVE RStrip(_)
RStrip(t) ==
  IF t # <<>> /\ IsSpace(t[Len(t)]) THEN RStrip(SubSeq(t, 1, Len(t) - 1)) ELSE t

\* str.strip()
Strip(t) ==
  RStrip(LStrip(t))

\* length of the maximal run of characters of set cs starting at position i
RECURSIVE RunLen(_, _, _)
RunLen(t, i, cs) ==
  IF i <= Len(t) /\ t[i] \in cs THEN 1 + RunLen(t, i + 1, cs) ELSE 0

\* re.sub(cs{k,}, rep, t): every maximal run of at least k characters of cs
\* is replaced by rep
RECURSIVE SubRuns(_, _, _, _, _)
\* the same from position i on, where a run of n characters of cs starts
SubRunsAt(t, i, cs, k, rep, n) ==
  IF n >= k THEN rep \o SubRuns(t, i + n, cs, k, rep)
  ELSE IF n > 0 THEN SubSeq(t, i, i + n - 1) \o SubRuns(t, i + n, cs, k, rep)
  ELSE <<t[i]>> \o SubRuns(t, i + 1, cs, k, rep)

SubRuns(t, i, cs, k, rep) ==
  IF i > Len(t) THEN <<>> ELSE SubRunsAt(t, i, cs, k, rep, RunLen(t, i, cs))

(***************************************************************************)
(* sources/fetcher.py                                                      *)
(***************************************************************************)
BLOCK_SIGNALS ==
  << <<"j","u","s","t"," ","a"," ","m","o","m","e","n","t">>,
     <<"e","n","a","b","l","e"," ","j","a","v","a","s","c","r","i","p","t">>,
     <<"c","f","-","b","r","o","w","s","e","r","-","v","e","r","i","f","i","c","a","t","i","o","n">>,
     <<"c","h","e","c","k","i","n","g"," ","y","o","u","r"," ","b","r","o","w","s","e","r">>,
     <<"d","d","o","s"," ","p","r","o","t","e","c","t","i","o","n">>,
     <<"p","l","e","a","s","e"," ","w","a","i","t"," ","w","h","i","l","e"," ","w","e"," ","c","h","e","c","k"," ","y","o","u","r"," ","b","r","o","w","s","e","r">> >>

\* a variant of _clean_text that collapses runs of newlines from four on
clean_text_from4(raw) ==
  Strip(SubRuns(SubRuns(raw, 1, {"\n"}, 4, <<"\n", "\n">>), 1, {" ", "\t"}, 2, <<" ">>))

_clean_text(raw) ==
  Strip(SubRuns(SubRuns(raw, 1, {"\n"}, 3, <<"\n", "\n">>), 1, {" ", "\t"}, 2, <<" ">>))

\* any(signal in low for signal in signals)
AnyIn(signals, low) ==
  \E i \in 1..Len(signals) : IsSubstr(signals[i], low)

\* a variant of _is_blocked that compares without lower-casing the text
is_blocked_cased(text) ==
  AnyIn(BLOCK_SIGNALS, text)

_is_blocked(text) ==
  AnyIn(BLOCK_SIGNALS, Lower(text))

\* all(fp.lower() in low for fp in fingerprints)
AllIn(fingerprints, low) ==
  \A i \in 1..Len(fingerprints) : IsSubstr(Lower(fingerprints[i]), low)

\* a variant of _check_fingerprints that does not lower-case the phrases
check_fingerprints_cased(text, fingerprints) ==
  IF fingerprints = <<>> THEN TRUE
  ELSE \A i \in 1..Len(fingerprints) : IsSubstr(fingerprints[i], Lower(text))

_check_fingerprints(text, fingerprints) ==
  IF fingerprints = <<>> THEN TRUE ELSE AllIn(fingerprints, Lower(text))

\* hashlib.sha256(text.encode()).hexdigest(): the digest of a text, taken
\* as injective
_hash(text) ==
  <<"sha256", text>>

(***************************************************************************)
(* analyzer.py                                                             *)
(***************************************************************************)
HIGH_SIGNAL_PHRASES ==
  << <<"t","r","a","i","n">>,
     <<"t","r","a","i","n","i","n","g"," ","d","a","t","a">>,
     <<"m","a","c","h","i","n","e"," ","l","e","a","r","n","i","n","g">>,
     <<"l","a","r","g","e"," ","l","a","n","g","u","a","g","e"," ","m","o","d","e","l">>,
     <<"l","l","m">>,
     <<"a","i"," ","m","o","d","e","l">>,
     <<"a","r","t","i","f","i","c","i","a","l"," ","i","n","t","e","l","l","i","g","e","n","c","e">>,
     <<"g","e","n","e","r","a","t","i","v","e">>,
     <<"o","p","t"," ","o","u","t">>,
     <<"o","p","t","-","o","u","t">>,
     <<"s","h","a","r","e"," ","y","o","u","r"," ","d","a","t","a">>,
     <<"s","h","a","r","e"," ","d","a","t","a"," ","w","i","t","h">>,
     <<"t","h","i","r","d"," ","p","a","r","t","y">>,
     <<"t","h","i","r","d","-","p","a","r","t","y">>,
     <<"s","e","l","l"," ","y","o","u","r"," ","d","a","t","a">>,
     <<"d","a","t","a"," ","r","e","t","e","n","t","i","o","n">>,
     <<"r","e","t","a","i","n"," ","y","o","u","r"," ","d","a","t","a">>,
     <<"d","e","l","e","t","e"," ","y","o","u","r"," ","d","a","t","a">>,
     <<"l","a","w"," ","e","n","f","o","r","c","e","m","e","n","t">>,
     <<"g","o","v","e","r","n","m","e","n","t"," ","r","e","q","u","e","s","t">>,
     <<"s","u","b","p","o","e","n","a">>,
     <<"l","i","c","e","n","s","e">>,
     <<"r","o","y","a","l","t","y">>,
     <<"i","n","t","e","l","l","e","c","t","u","a","l"," ","p","r","o","p","e","r","t","y">>,
     <<"o","w","n","e","r","s","h","i","p">> >>

\* str.splitlines() (the model's only line break is "\n")
RECURSIVE SplitLines(_)
\* the first line of t, of n characters, and the lines after its line break
LineAndRest(t, n) ==
  <<SubSeq(t, 1, n)>> \o SplitLines(SubSeq(t, n + 2, Len(t)))

SplitLines(t) ==
  IF t = <<>> THEN <<>>
  ELSE LineAndRest(t, RunLen(t, 1, {c \in {t[i] : i \in 1..Len(t)} : c # "\n"}))

StartsWith(line, p) ==
  Len(line) >= Len(p) /\ SubSeq(line, 1, Len(p)) = p

\* sep.join(lines)
RECURSIVE Join(_, _)
Join(sep, lines) ==
  IF lines = <<>> THEN <<>>
  ELSE IF Len(lines) = 1 THEN lines[1]
  ELSE lines[1] \o sep \o Join(sep, Tail(lines))

\* length of the common run a[i:] / b[j:] within a[:ahi], b[:bhi] (0-based)
RECURSIVE MatchLen(_, _, _, _, _, _)
MatchLen(a, b, i, j, ahi, bhi) ==
  IF i < ahi /\ j < bhi /\ a[i + 1] = b[j + 1]
    THEN 1 + MatchLen(a, b, i + 1, j + 1, ahi, bhi)
    ELSE 0

\* the best of the candidate blocks <<i, j, size>>: the longest, then the
\* earliest in a, then the earliest in b
BestBlock(cands, alo, blo) ==
  IF \A m \in cands : m[3] = 0 THEN <<alo, blo, 0>>
  ELSE CHOOSE m \in cands :
         \A o \in cands :
            \/ m[3] > o[3]
            \/ m[3] = o[3] /\ m[1] < o[1]
            \/ m[3] = o[3] /\ m[1] = o[1] /\ m[2] <= o[2]

\* difflib.SequenceMatcher.find_longest_match without junk (fewer than 200
\* lines: no autojunk)
find_longest_match(a, b, alo, ahi, blo, bhi) ==
  BestBlock({<<i, j, MatchLen(a, b, i, j, ahi, bhi)>> :
               i \in alo..(ahi - 1), j \in blo..(bhi - 1)}, alo, blo)

RECURSIVE get_matching_blocks(_, _, _, _, _, _)
\* the blocks around the longest block m
BlocksAround(a, b, alo, ahi, blo, bhi, m) ==
  IF m[3] = 0 THEN <<>>
  ELSE get_matching_blocks(a, b, alo, m[1], blo, m[2])
       \o <<m>>
       \o get_matching_blocks(a, b, m[1] + m[3], ahi, m[2] + m[3], bhi)

\* difflib.SequenceMatcher.get_matching_blocks (without the end sentinel)
get_matching_blocks(a, b, alo, ahi, blo, bhi) ==
  IF alo >= ahi \/ blo >= bhi THEN <<>>
  ELSE BlocksAround(a, b, alo, ahi, blo, bhi,
                    find_longest_match(a, b, alo, ahi, blo, bhi))

\* one hunk of the diff: an "@@" line, the removed lines with "-", the
\* added lines with "+" (nothing when both are empty)
Hunk(minus, plus) ==
  IF minus = <<>> /\ plus = <<>> THEN <<>>
  ELSE << <<"@", "@">> >> \o minus \o plus

\* the hunks of difflib.unified_diff(a, b, lineterm="", n=0) from block k
\* on, the lines before a[i], b[j] being done
RECURSIVE Hunks(_, _, _, _, _, _)
Hunks(a, b, blocks, k, i, j) ==
  IF k > Len(blocks) THEN <<>>
  ELSE Hunk([x \in 1..(blocks[k][1] - i) |-> <<"-">> \o a[i + x]],
            [x \in 1..(blocks[k][2] - j) |-> <<"+">> \o b[j + x]])
       \o Hunks(a, b, blocks, k + 1, blocks[k][1] + blocks[k][3],
                blocks[k][2] + blocks[k][3])

\* the two header lines, when there is any hunk
WithHeader(hunks) ==
  IF hunks = <<>> THEN <<>>
  ELSE << <<"-", "-", "-", " ">>, <<"+", "+", "+", " ">> >> \o hunks

\* difflib.unified_diff(a, b, lineterm="", n=0)
unified_diff(a, b) ==
  WithHeader(Hunks(a, b,
                   get_matching_blocks(a, b, 0, Len(a), 0, Len(b))
                     \o << <<Len(a), Len(b), 0>> >>,
                   1, 0, 0))

\* [l for l in lines if l]
RECURSIVE NonBlank(_)
NonBlank(lines) ==
  IF lines = <<>> THEN <<>>
  ELSE IF Head(lines) = <<>> THEN NonBlank(Tail(lines))
  ELSE <<Head(lines)>> \o NonBlank(Tail(lines))

\* the loop of _compute_diff over the diff lines: sign is "+" or "-"
RECURSIVE Collect(_, _)
Collect(diff, sign) ==
  IF diff = <<>> THEN <<>>
  ELSE IF StartsWith(Head(diff), <<sign>>)
          /\ ~StartsWith(Head(diff), <<sign, sign, sign>>)
         THEN <<Strip(Tail(Head(diff)))>> \o Collect(Tail(diff), sign)
         ELSE Collect(Tail(diff), sign)

\* lines 40-49 of _compute_diff, diff being the lines of the unified diff
AddedRemoved(diff) ==
  [added   |-> NonBlank(Collect(diff, "+")),
   removed |-> NonBlank(Collect(diff, "-"))]

_compute_diff(prev, curr) ==
  AddedRemoved(unified_diff(SplitLines(prev), SplitLines(curr)))

\* [p for p in HIGH_SIGNAL_PHRASES if p in changed_text]
RECURSIVE PhrasesIn(_, _)
PhrasesIn(phrases, text) ==
  IF phrases = <<>> THEN <<>>
  ELSE IF IsSubstr(Head(phrases), text)
         THEN <<Head(phrases)>> \o PhrasesIn(Tail(phrases), text)
         ELSE PhrasesIn(Tail(phrases), text)

_check_high_signals(added, removed) ==
  PhrasesIn(HIGH_SIGNAL_PHRASES, Lower(Join(<<" ">>, added \o removed)))

\* a variant of _heuristic_score for which 20 changed lines are medium
heuristic_score_from20(high_signals, added, removed) ==
  IF high_signals # <<>> THEN "high"
  ELSE IF Len(added) + Len(removed) >= 20 THEN "medium"
  ELSE "low"

_heuristic_score(high_signals, added, removed) ==
  IF high_signals # <<>> THEN "high"
  ELSE IF Len(added) + Len(removed) > 20 THEN "medium"
  ELSE IF Len(added) + Len(removed) > 5 THEN "low"
  ELSE "low"

\* a variant of Floor that leaves the score as it is
NoFloor(high_signals, score) ==
  score

\* lines 133-135: the floor
Floor(high_signals, score) ==
  IF high_signals # <<>> /\ score = "low" THEN "medium" ELSE score

\* a variant of ScoreOf that gives no score when the assessor raises
ScoreOfUnknown(added, removed, high_signals, llm) ==
  IF added = <<>> /\ removed = <<>>
    THEN [score            |-> "low",
          summary          |-> "No meaningful text changes detected.",
          reasoning        |-> "Content hash differed but no line-level changes found",
          added_lines      |-> <<>>,
          removed_lines    |-> <<>>,
          high_signal_hits |-> <<>>,
          assessor_invoked |-> FALSE]
  ELSE IF llm.kind = "error"
    THEN [score            |-> "unknown",
          summary          |-> "LLM scoring unavailable.",
          reasoning        |-> "Heuristic score based on change volume and signal phrases.",
          added_lines      |-> added,
          removed_lines    |-> removed,
          high_signal_hits |-> high_signals,
          assessor_invoked |-> TRUE]
  ELSE [score            |-> Floor(high_signals,
                                   IF llm.score # "none" THEN llm.score
                                   ELSE _heuristic_score(high_signals, added, removed)),
        summary          |-> IF llm.summary THEN "llm summary"
                             ELSE "Changes detected - review required.",
        reasoning        |-> IF llm.reasoning THEN "llm reasoning" ELSE "llm content",
        added_lines      |-> added,
        removed_lines    |-> removed,
        high_signal_hits |-> high_signals,
        assessor_invoked |-> TRUE]

\* a variant of ScoreOf without the return for an empty diff
ScoreOfAlwaysAssessed(added, removed, high_signals, llm) ==
  [score            |-> IF llm.kind = "answer" /\ llm.score # "none"
                          THEN Floor(high_signals, llm.score)
                          ELSE _heuristic_score(high_signals, added, removed),
   summary          |-> IF llm.kind = "error" THEN "LLM scoring unavailable."
                        ELSE "Changes detected - review required.",
   reasoning        |-> "llm content",
   added_lines      |-> added,
   removed_lines    |-> removed,
   high_signal_hits |-> high_signals,
   assessor_invoked |-> TRUE]

\* lines 71-156 of score_diff.  llm is what litellm.acompletion does: it
\* raises (kind "error") or answers, and the three regular expressions find
\* a score ("low", "medium", "high", or "none"), a summary and a reasoning;
\* assessor_invoked says if score_diff got as far as calling it
ScoreOf(added, removed, high_signals, llm) ==
  IF added = <<>> /\ removed = <<>>
    THEN [score            |-> "low",
          summary          |-> "No meaningful text changes detected.",
          reasoning        |-> "Content hash differed but no line-level changes found",
          added_lines      |-> <<>>,
          removed_lines    |-> <<>>,
          high_signal_hits |-> <<>>,
          assessor_invoked |-> FALSE]
  ELSE IF llm.kind = "error"
    THEN [score            |-> _heuristic_score(high_signals, added, removed),
          summary          |-> "LLM scoring unavailable.",
          reasoning        |-> "Heuristic score based on change volume and signal phrases.",
          added_lines      |-> added,
          removed_lines    |-> removed,
          high_signal_hits |-> high_signals,
          assessor_invoked |-> TRUE]
  ELSE [score            |-> Floor(high_signals,
                                   IF llm.score # "none" THEN llm.score
                                   ELSE _heuristic_score(high_signals, added, removed)),
        summary          |-> IF llm.summary THEN "llm summary"
                             ELSE "Changes detected - review required.",
        reasoning        |-> IF llm.reasoning THEN "llm reasoning" ELSE "llm content",
        added_lines      |-> added,
        removed_lines    |-> removed,
        high_signal_hits |-> high_signals,
        assessor_invoked |-> TRUE]

\* lines 68-69 of score_diff, d being the diff
ScoreOfDiff(d, llm) ==
  ScoreOf(d.added, d.removed, _check_high_signals(d.added, d.removed), llm)

score_diff(prev_text, curr_text, llm) ==
  ScoreOfDiff(_compute_diff(prev_text, curr_text), llm)

(***************************************************************************)
(* sources/fetcher.py: fetch_page.  web is what the browser does for the   *)
(* URL: kind "noplaywright" (ImportError), "timeout" (PWTimeout), "error"  *)
(* (any other exception) or "body" with the body's inner text.             *)
(***************************************************************************)
\* lines 107-126 of fetch_page, text being the cleaned inner text
Fetched(text, fingerprint_phrases) ==
  IF _is_blocked(text)
    THEN [success |-> FALSE, text |-> text, content_hash |-> _hash(text),
          blocked |-> TRUE, page_moved |-> FALSE,
          error |-> "Page returned a bot-detection block"]
    ELSE [success |-> TRUE, text |-> text, content_hash |-> _hash(text),
          blocked |-> FALSE,
          page_moved |-> (fingerprint_phrases # <<>>
                          /\ ~_check_fingerprints(text, fingerprint_phrases)),
          error |-> "None"]

\* a fetch that failed (lines 75-78, 100-103, 130-133)
FetchError(error) ==
  [success |-> FALSE, text |-> <<>>, content_hash |-> <<>>,
   blocked |-> FALSE, page_moved |-> FALSE, error |-> error]

fetch_page(web, fingerprint_phrases) ==
  IF web.kind = "noplaywright" THEN FetchError("Playwright not installed")
  ELSE IF web.kind = "timeout" THEN FetchError("Timeout fetching url")
  ELSE IF web.kind = "error" THEN FetchError("exception")
  ELSE Fetched(_clean_text(web.raw), fingerprint_phrases)

(***************************************************************************)
(* The bounds of the model and the inputs the environment draws from       *)
(***************************************************************************)
\* the clock runs from 1 to MaxTime (seconds, as strftime('%s','now'))
MaxTime ==
  2

\* snapshots ever inserted (every call in flight holds one in reserve)
MaxSnapshots ==
  3

\* a policy page, normalized
TextA ==
  <<"P","r","i","v","a","c","y","\n","\n","l","o","g","s"," ","k","e","p","t">>

\* the same page with extra blank lines and spaces
RawA2 ==
  <<"P","r","i","v","a","c","y","\n","\n","\n","\n","l","o","g","s"," "," ","k","e","p","t","\n">>

\* another version: a high-signal phrase, no fingerprint phrase
TextB ==
  <<"T","e","r","m","s","\n","\n","w","e"," ","T","r","a","i","n"," ","a","i">>

\* an interstitial of the bot protection
RawBlocked ==
  <<"J","u","s","t"," ","a"," ","m","o","m","e","n","t">>

\* a pasted baseline: the page with a doubled space
PasteA2 ==
  <<" ","P","r","i","v","a","c","y","\n","\n","l","o","g","s"," "," ","k","e","p","t"," ">>

\* the fingerprint phrase of the watched page
FpPrivacy ==
  <<"p","r","i","v","a","c","y">>

\* what the browser may return for a watched URL
WebOutcomes ==
  {[kind |-> "timeout"], [kind |-> "error"], [kind |-> "noplaywright"]}
  \cup {[kind |-> "body", raw |-> r] : r \in {TextA, RawA2, TextB, RawBlocked}}

\* what the assessor does in a check: it raises (no API key)
LlmOutcomes ==
  {[kind |-> "error"]}

\* what the assessor may do: raise, or answer with or without a score, and
\* with or without the other two fields
LlmAnswers ==
  {[kind |-> "error"]}
  \cup {[kind |-> "answer", score |-> s, summary |-> b, reasoning |-> b] :
          s \in {"low", "medium", "high", "none"}, b \in BOOLEAN}

\* BaselinePaste.text
PasteTexts ==
  {<<>>, <<" ", "\n">>, PasteA2}

\* BaselinePaste.as_of_date: absent, not an ISO date, or a date (its
\* timestamp: before the clock's first second, or after its last)
AsOfDates ==
  {[kind |-> "none"], [kind |-> "bad"]}
  \cup {[kind |-> "date", ts |-> t] : t \in {0, MaxTime + 1}}

\* VerdictUpdate.verdict
VerdictInputs ==
  {"confirmed", "dismissed", "pending", ""}

\* page ids of requests: the watched page and an unknown id
PageIds ==
  {"p1", "p9"}

\* event ids of requests (the last of them is never handed out)
EventIds ==
  1..MaxSnapshots

\* the inputs of the model to fetch_page and score_diff, and their results,
\* computed once
FingerprintLists ==
  {<<>>, <<FpPrivacy>>}

fetch_results ==
  [web \in WebOutcomes |-> [f \in FingerprintLists |-> fetch_page(web, f)]]

FetchedTexts ==
  {fetch_results[web][f].text : web \in WebOutcomes, f \in FingerprintLists}

StoredTexts ==
  FetchedTexts \cup {Strip(t) : t \in PasteTexts}

score_results ==
  [prev \in StoredTexts |-> [curr \in FetchedTexts |->
     [llm \in LlmAnswers |-> score_diff(prev, curr, llm)]]]

VARIABLES
  vendors,        \* table vendors: set of ids
  pages,          \* table watched_pages: id -> row
  snapshots,      \* table snapshots: set of rows
  change_events,  \* table change_events: set of rows
  n_snap,         \* snapshot ids handed out (uuid4: never reused)
  n_event,        \* event ids handed out
  calls,          \* bag of check_page calls between their read and their write
  now,            \* the clock
  args,           \* score_diff alone: its arguments
  result,         \* score_diff alone: its result
  runs,           \* check_all_pages calls: in flight, returned or failed
  archive_calls,  \* wayback.py: the calls of find_snapshots and fetch_wayback_text
  requests        \* wayback.py: the requests sent to the archive

vars ==
  <<vendors, pages, snapshots, change_events, n_snap, n_event, calls, now, args,
    result, runs, archive_calls, requests>>

\* SQL NULL in an INTEGER column
NULL ==
  -1

\* the database as the handlers see it
DB ==
  [vendors |-> vendors, pages |-> pages, snapshots |-> snapshots,
   change_events |-> change_events,
   n_snap |-> n_snap, n_event |-> n_event]

SnapsOf(db, p) ==
  {s \in db.snapshots : s.page_id = p}

\* SELECT * FROM snapshots WHERE page_id=? ORDER BY captured_at DESC LIMIT 1:
\* the results the query may have (rows of equal captured_at come in an
\* order SQL leaves open)
LastSnapRows(db, p) ==
  IF SnapsOf(db, p) = {} THEN {<<>>}
  ELSE {<<s>> : s \in {x \in SnapsOf(db, p) :
                         \A y \in SnapsOf(db, p) : y.captured_at <= x.captured_at}}

\* PRAGMA foreign_keys=ON: the references of a change_events row resolve
EventRefsOk(e, pgs, snaps) ==
  /\ e.page_id \in DOMAIN pgs
  /\ \E s \in snaps : s.id = e.prev_snapshot_id
  /\ \E s \in snaps : s.id = e.curr_snapshot_id

(***************************************************************************)
(* main.py: check_page.  The handler awaits the fetch between its read of  *)
(* the last snapshot and its writes, so it is two steps; the writes are    *)
(* one SQLite transaction (committed whole, or rolled back when a          *)
(* statement raises).  Every handler is an operator from the database and  *)
(* the request to the database it leaves and the response.                 *)
(***************************************************************************)
\* lines 180-199: the page row and the last snapshot are read; the results
\* the reads may have
check_page_read(db, page_id) ==
  IF page_id \notin DOMAIN db.pages
    THEN {[status |-> 404]}
    ELSE {[status              |-> 0,
           page_id             |-> page_id,
           fingerprint_phrases |-> db.pages[page_id].fingerprint_phrases,
           last_snap           |-> snap_rows] : snap_rows \in LastSnapRows(db, page_id)}

\* a variant of UpdateChecked that leaves page_moved_flag when the fetch failed
UpdateCheckedKeepsMoved(pgs, page_id, now_ts, res) ==
  IF page_id \in DOMAIN pgs
    THEN [pgs EXCEPT ![page_id].last_checked = now_ts,
                     ![page_id].page_moved_flag = IF res.success THEN res.page_moved ELSE @]
    ELSE pgs

\* a variant of UpdateChecked that writes last_changed too
UpdateCheckedAndChanged(pgs, page_id, now_ts, res) ==
  IF page_id \in DOMAIN pgs
    THEN [pgs EXCEPT ![page_id].last_checked = now_ts,
                     ![page_id].last_changed = now_ts,
                     ![page_id].page_moved_flag = res.page_moved]
    ELSE pgs

\* lines 207-210: UPDATE watched_pages SET last_checked=?, page_moved_flag=?
UpdateChecked(pgs, page_id, now_ts, res) ==
  IF page_id \in DOMAIN pgs
    THEN [pgs EXCEPT ![page_id].last_checked = now_ts,
                     ![page_id].page_moved_flag = res.page_moved]
    ELSE pgs

\* lines 262-264: UPDATE watched_pages SET last_changed=?
UpdateChanged(pgs, page_id, now_ts) ==
  IF page_id \in DOMAIN pgs
    THEN [pgs EXCEPT ![page_id].last_changed = now_ts]
    ELSE pgs

\* a row of snapshots (captured_at defaults to the time of the INSERT)
SnapshotRow(id, page_id, captured_at, content_hash, text, source) ==
  [id           |-> id,
   page_id      |-> page_id,
   captured_at  |-> captured_at,
   content_hash |-> content_hash,
   text_content |-> text,
   source       |-> source]

\* a variant of EventRow whose events are born confirmed
EventRowConfirmed(id, page_id, last_snap, new_snap_id, diff, curr_text) ==
  [id               |-> id,
   page_id          |-> page_id,
   prev_snapshot_id |-> last_snap.id,
   curr_snapshot_id |-> new_snap_id,
   diff_summary     |-> diff.summary,
   llm_score        |-> diff.score,
   llm_reasoning    |-> diff.reasoning,
   user_verdict     |-> "confirmed",
   prev_text        |-> last_snap.text_content,
   curr_text        |-> curr_text]

\* lines 250-260: the row of change_events (user_verdict defaults to 'pending')
EventRow(id, page_id, last_snap, new_snap_id, diff, curr_text) ==
  [id               |-> id,
   page_id          |-> page_id,
   prev_snapshot_id |-> last_snap.id,
   curr_snapshot_id |-> new_snap_id,
   diff_summary     |-> diff.summary,
   llm_score        |-> diff.score,
   llm_reasoning    |-> diff.reasoning,
   user_verdict     |-> "pending",
   prev_text        |-> last_snap.text_content,
   curr_text        |-> curr_text]

\* lines 236-275: the content changed
CheckChanged(db, t, c, res, diff) ==
  LET last_snap == c.last_snap[1]
      new_snap  == SnapshotRow(db.n_snap + 1, c.page_id, t, res.content_hash,
                               res.text, "live")
      event     == EventRow(db.n_event + 1, c.page_id, last_snap, new_snap.id,
                            diff, res.text)
      pages1    == UpdateChecked(db.pages, c.page_id, t, res)
  IN  IF EventRefsOk(event, db.pages, db.snapshots \cup {new_snap})
        THEN [db     |-> [vendors       |-> db.vendors,
                          pages         |-> UpdateChanged(pages1, c.page_id, t),
                          snapshots     |-> db.snapshots \cup {new_snap},
                          change_events |-> db.change_events \cup {event},
                          n_snap        |-> db.n_snap + 1,
                          n_event       |-> db.n_event + 1],
              status |-> 200,
              fetch  |-> res,
              body   |-> [changed          |-> TRUE,
                          score            |-> diff.score,
                          summary          |-> diff.summary,
                          reasoning        |-> diff.reasoning,
                          high_signal_hits |-> diff.high_signal_hits,
                          page_moved       |-> res.page_moved,
                          event_id         |-> event.id]]
        ELSE \* IntegrityError: the transaction is not committed
             [db |-> db, status |-> 500, fetch |-> res, body |-> [detail |-> "error"]]

\* lines 203-234: the fetch has returned res at time t
CheckFetched(db, t, c, res, llm) ==
  LET pages1 == UpdateChecked(db.pages, c.page_id, t, res)
  IN  IF ~res.success
        THEN [db     |-> [db EXCEPT !.pages = pages1],
              status |-> 200,
              fetch  |-> res,
              body   |-> [changed |-> FALSE, blocked |-> res.blocked,
                          page_moved |-> res.page_moved, error |-> res.error]]
      ELSE IF c.last_snap = <<>> /\ c.page_id \notin DOMAIN db.pages
        THEN \* the page was deleted during the fetch: IntegrityError
             [db |-> db, status |-> 500, fetch |-> res, body |-> [detail |-> "error"]]
      ELSE IF c.last_snap = <<>>
        THEN [db     |-> [db EXCEPT
                            !.pages = pages1,
                            !.snapshots = @ \cup {SnapshotRow(db.n_snap + 1, c.page_id,
                                                   t, res.content_hash, res.text, "live")},
                            !.n_snap = @ + 1],
              status |-> 200,
              fetch  |-> res,
              body   |-> [changed |-> FALSE, baseline |-> TRUE,
                          message |-> "First snapshot saved."]]
      ELSE IF res.content_hash = c.last_snap[1].content_hash
        THEN [db     |-> [db EXCEPT !.pages = pages1],
              status |-> 200,
              fetch  |-> res,
              body   |-> [changed |-> FALSE, message |-> "No changes detected."]]
      ELSE CheckChanged(db, t, c, res,
                        score_results[c.last_snap[1].text_content][res.text][llm])

\* a variant of check_page that takes a moved page for a failed fetch
check_page_unless_moved(db, t, c, web, llm) ==
  CheckFetched(db, t, c,
               [fetch_results[web][c.fingerprint_phrases]
                  EXCEPT !.success = @ /\ ~fetch_results[web][c.fingerprint_phrases].page_moved],
               llm)

\* lines 201-275 of check_page for the call c, at time t: web is what the
\* browser does, llm what the assessor does
check_page(db, t, c, web, llm) ==
  CheckFetched(db, t, c, fetch_results[web][c.fingerprint_phrases], llm)

\* lines 205-265: what the connection of a change-detecting check has written
\* after the first k statements of its transaction (UPDATE last_checked,
\* INSERT snapshot, INSERT change event, UPDATE last_changed)
ChangeStatements(db, t, c, res, diff, k) ==
  LET new_snap == SnapshotRow(db.n_snap + 1, c.page_id, t, res.content_hash,
                              res.text, "live")
      event    == EventRow(db.n_event + 1, c.page_id, c.last_snap[1], new_snap.id,
                           diff, res.text)
      db1      == IF k >= 1
                    THEN [db EXCEPT !.pages = UpdateChecked(@, c.page_id, t, res)]
                    ELSE db
      db2      == IF k >= 2
                    THEN [db1 EXCEPT !.snapshots = @ \cup {new_snap}, !.n_snap = @ + 1]
                    ELSE db1
      db3      == IF k >= 3
                    THEN [db2 EXCEPT !.change_events = @ \cup {event}, !.n_event = @ + 1]
                    ELSE db2
  IN  IF k >= 4 THEN [db3 EXCEPT !.pages = UpdateChanged(@, c.page_id, t)] ELSE db3

\* the statements a storage failure may come after (4: the commit fails)
FailurePoints ==
  0..4

\* a variant of Rollback for a connection in autocommit mode
RollbackKeeps(db, work) ==
  work

\* database.py, get_db: the exception closes the connection before
\* db.commit(), and what it wrote (work) is rolled back
Rollback(db, work) ==
  db

\* check_page for the call c that fetched a changed text, when the storage
\* fails after k statements of the transaction
check_page_failed(db, t, c, web, llm, k) ==
  [db     |-> Rollback(db, ChangeStatements(db, t, c,
                             fetch_results[web][c.fingerprint_phrases],
                             score_results[c.last_snap[1].text_content]
                                          [fetch_results[web][c.fingerprint_phrases].text]
                                          [llm],
                             k)),
   status |-> 500,
   fetch  |-> fetch_results[web][c.fingerprint_phrases],
   body   |-> [detail |-> "error"]]

(***************************************************************************)
(* main.py: set_verdict, set_manual_baseline                               *)
(***************************************************************************)
\* a variant of set_verdict whose UPDATE has no WHERE id=?
set_verdict_every(db, event_id, body) ==
  IF body.verdict \notin {"confirmed", "dismissed"}
    THEN [db |-> db, status |-> 400,
          body |-> [detail |-> "verdict must be 'confirmed' or 'dismissed'"]]
    ELSE [db     |-> [db EXCEPT !.change_events =
                        {[e EXCEPT !.user_verdict = body.verdict] : e \in db.change_events}],
          status |-> 200,
          body   |-> [ok |-> TRUE, verdict |-> body.verdict]]

\* a variant of set_verdict that accepts 'pending' too
set_verdict_pending(db, event_id, body) ==
  IF body.verdict \notin {"confirmed", "dismissed", "pending"}
    THEN [db |-> db, status |-> 400,
          body |-> [detail |-> "verdict must be 'confirmed' or 'dismissed'"]]
    ELSE [db     |-> [db EXCEPT !.change_events =
                        {IF e.id = event_id THEN [e EXCEPT !.user_verdict = body.verdict]
                                            ELSE e : e \in db.change_events}],
          status |-> 200,
          body   |-> [ok |-> TRUE, verdict |-> body.verdict]]

set_verdict(db, event_id, body) ==
  IF body.verdict \notin {"confirmed", "dismissed"}
    THEN [db |-> db, status |-> 400,
          body |-> [detail |-> "verdict must be 'confirmed' or 'dismissed'"]]
    ELSE [db     |-> [db EXCEPT !.change_events =
                        {IF e.id = event_id THEN [e EXCEPT !.user_verdict = body.verdict]
                                            ELSE e : e \in db.change_events}],
          status |-> 200,
          body   |-> [ok |-> TRUE, verdict |-> body.verdict]]

\* a variant of set_manual_baseline that tests the text without strip()
set_manual_baseline_unstripped(db, t, page_id, body) ==
  LET text     == Strip(body.text)
      as_of_ts == IF body.as_of_date.kind = "date" THEN body.as_of_date.ts ELSE t
      old      == {s \in SnapsOf(db, page_id) : s.source \in {"manual", "wayback"}}
      new_snap == SnapshotRow(db.n_snap + 1, page_id, as_of_ts, _hash(text),
                              text, "manual")
  IN  IF body.text = <<>>
        THEN [db |-> db, status |-> 400,
              body |-> [detail |-> "Baseline text cannot be empty"]]
      ELSE IF page_id \notin DOMAIN db.pages
        THEN [db |-> db, status |-> 404, body |-> [detail |-> "Page not found"]]
      ELSE IF \E e \in db.change_events, s \in old :
                 e.prev_snapshot_id = s.id \/ e.curr_snapshot_id = s.id
        THEN [db |-> db, status |-> 500, body |-> [detail |-> "error"]]
      ELSE [db     |-> [db EXCEPT !.snapshots = (@ \ old) \cup {new_snap},
                                  !.n_snap = @ + 1],
            status |-> 200,
            body   |-> [ok |-> TRUE, snapshot_id |-> new_snap.id,
                        char_count |-> Len(text), as_of_ts |-> as_of_ts]]

\* a variant of set_manual_baseline without the DELETE of the old baseline
set_manual_baseline_keep(db, t, page_id, body) ==
  LET text     == Strip(body.text)
      as_of_ts == IF body.as_of_date.kind = "date" THEN body.as_of_date.ts ELSE t
      new_snap == SnapshotRow(db.n_snap + 1, page_id, as_of_ts, _hash(text),
                              text, "manual")
  IN  IF Strip(body.text) = <<>>
        THEN [db |-> db, status |-> 400,
              body |-> [detail |-> "Baseline text cannot be empty"]]
      ELSE IF page_id \notin DOMAIN db.pages
        THEN [db |-> db, status |-> 404, body |-> [detail |-> "Page not found"]]
      ELSE [db     |-> [db EXCEPT !.snapshots = @ \cup {new_snap}, !.n_snap = @ + 1],
            status |-> 200,
            body   |-> [ok |-> TRUE, snapshot_id |-> new_snap.id,
                        char_count |-> Len(text), as_of_ts |-> as_of_ts]]

set_manual_baseline(db, t, page_id, body) ==
  LET text         == Strip(body.text)
      content_hash == _hash(text)
      as_of_ts     == IF body.as_of_date.kind = "date" THEN body.as_of_date.ts ELSE t
      old          == {s \in SnapsOf(db, page_id) : s.source \in {"manual", "wayback"}}
      new_snap     == SnapshotRow(db.n_snap + 1, page_id, as_of_ts, content_hash,
                                  text, "manual")
  IN  IF Strip(body.text) = <<>>
        THEN [db |-> db, status |-> 400,
              body |-> [detail |-> "Baseline text cannot be empty"]]
      ELSE IF page_id \notin DOMAIN db.pages
        THEN [db |-> db, status |-> 404, body |-> [detail |-> "Page not found"]]
      ELSE IF \E e \in db.change_events, s \in old :
                 e.prev_snapshot_id = s.id \/ e.curr_snapshot_id = s.id
        THEN \* the DELETE violates a foreign key: IntegrityError, no commit
             [db |-> db, status |-> 500, body |-> [detail |-> "error"]]
      ELSE [db     |-> [db EXCEPT !.snapshots = (@ \ old) \cup {new_snap},
                                  !.n_snap = @ + 1],
            status |-> 200,
            body   |-> [ok |-> TRUE, snapshot_id |-> new_snap.id,
                        char_count |-> Len(text), as_of_ts |-> as_of_ts]]

(***************************************************************************)
(* The steps of the system                                                 *)
(***************************************************************************)
\* the database a handler leaves is committed
Commit(db) ==
  /\ vendors' = db.vendors
  /\ pages' = db.pages
  /\ snapshots' = db.snapshots
  /\ change_events' = db.change_events
  /\ n_snap' = db.n_snap
  /\ n_event' = db.n_event

InFlight ==
  BagCardinality(calls)

\* a check_page request arrives and reads
CheckRead(p) ==
  /\ n_snap + InFlight < MaxSnapshots
  /\ \E r \in check_page_read(DB, p) :
       calls' = IF r.status = 404 THEN calls
                ELSE calls (+) SetToBag({[page_id             |-> r.page_id,
                                          fingerprint_phrases |-> r.fingerprint_phrases,
                                          last_snap           |-> r.last_snap]})
  /\ UNCHANGED <<vendors, pages, snapshots, change_events, n_snap, n_event, now, args, result,
               runs, archive_calls, requests>>

\* the fetch of a call in flight returns, and the call writes and answers
CheckWrite(c, web, llm) ==
  /\ BagIn(c, calls)
  /\ Commit(check_page(DB, now, c, web, llm).db)
  /\ calls' = calls (-) SetToBag({c})
  /\ UNCHANGED <<now, args, result,
               runs, archive_calls, requests>>

\* the fetch of a call in flight returns a changed text, and the storage fails
\* after k statements of the call's transaction
CheckFail(c, web, llm, k) ==
  /\ BagIn(c, calls)
  /\ c.last_snap # <<>>
  /\ fetch_results[web][c.fingerprint_phrases].success
  /\ fetch_results[web][c.fingerprint_phrases].content_hash # c.last_snap[1].content_hash
  /\ Commit(check_page_failed(DB, now, c, web, llm, k).db)
  /\ calls' = calls (-) SetToBag({c})
  /\ UNCHANGED <<now, args, result, runs, archive_calls, requests>>

SetVerdict(event_id, verdict) ==
  /\ Commit(set_verdict(DB, event_id, [verdict |-> verdict]).db)
  /\ UNCHANGED <<calls, now, args, result,
               runs, archive_calls, requests>>

SetManualBaseline(page_id, body) ==
  /\ n_snap + InFlight < MaxSnapshots
  /\ Commit(set_manual_baseline(DB, now, page_id, body).db)
  /\ UNCHANGED <<calls, now, args, result,
               runs, archive_calls, requests>>

\* a second passes
Tick ==
  /\ now < MaxTime
  /\ now' = now + 1
  /\ UNCHANGED <<vendors, pages, snapshots, change_events, n_snap, n_event, calls, args, result,
               runs, archive_calls, requests>>

(***************************************************************************)
(* The check workflow: one watched page, nothing checked yet               *)
(***************************************************************************)
Init ==
  /\ vendors = {"v1"}
  /\ pages = [p \in {"p1"} |->
                [vendor_id           |-> "v1",
                 status              |-> "active",
                 fingerprint_phrases |-> <<FpPrivacy>>,
                 last_checked        |-> NULL,
                 last_changed        |-> NULL,
                 page_moved_flag     |-> FALSE]]
  /\ snapshots = {}
  /\ change_events = {}
  /\ n_snap = 0
  /\ n_event = 0
  /\ calls = EmptyBag
  /\ now = 1
  /\ args = <<>>
  /\ result = <<>>
  /\ runs = <<>>
  /\ archive_calls = <<>>
  /\ requests = {}

Next ==
  \/ \E p \in PageIds : CheckRead(p)
  \/ \E c \in BagToSet(calls), web \in WebOutcomes, llm \in LlmOutcomes :
       CheckWrite(c, web, llm)
  \/ \E c \in BagToSet(calls), web \in WebOutcomes, llm \in LlmOutcomes,
          k \in FailurePoints :
       CheckFail(c, web, llm, k)
  \/ \E e \in EventIds, v \in VerdictInputs : SetVerdict(e, v)
  \/ \E p \in PageIds, t \in PasteTexts, d \in AsOfDates :
       SetManualBaseline(p, [text |-> t, as_of_date |-> d])
  \/ Tick

Spec ==
  Init /\ [][Next]_vars

(***************************************************************************)
(* score_diff alone: the arguments are drawn, then the function is applied *)
(***************************************************************************)
\* lines of the texts given to score_diff alone
MaxLines ==
  11

\* n lines, each the character ch
Lines(ch, n) ==
  Join(<<"\n">>, [i \in 1..n |-> <<ch>>])

\* two lines with a blank line between them
TextBlankLine ==
  <<"a", "\n", "\n", "a">>

\* a line that begins with two plus signs, and one with two minus signs
TextPlusLine ==
  <<"a", "\n", "+", "+", "b">>

TextMinusLine ==
  <<"a", "\n", "-", "-", "b">>

ScoreTexts ==
  {Lines(ch, n) : ch \in {"a", "b"}, n \in 0..MaxLines}
  \cup {TextA, TextB, TextBlankLine, TextPlusLine, TextMinusLine}

InitScore ==
  /\ vendors = {}
  /\ pages = [p \in {} |-> <<>>]
  /\ snapshots = {}
  /\ change_events = {}
  /\ n_snap = 0
  /\ n_event = 0
  /\ calls = EmptyBag
  /\ now = 1
  /\ args \in [prev_text : ScoreTexts, curr_text : ScoreTexts, llm : LlmAnswers]
  /\ result = <<>>
  /\ runs = <<>>
  /\ archive_calls = <<>>
  /\ requests = {}

ScoreDiff ==
  /\ result = <<>>
  /\ result' = score_diff(args.prev_text, args.curr_text, args.llm)
  /\ UNCHANGED <<vendors, pages, snapshots, change_events, n_snap, n_event, calls, now, args,
               runs, archive_calls, requests>>

NextScore ==
  ScoreDiff

SpecScore ==
  InitScore /\ [][NextScore]_vars

(***************************************************************************)
(* fetch_page alone: what the browser does and the fingerprint phrases are *)
(* drawn, then the function is applied                                     *)
(***************************************************************************)
\* fingerprint phrases given to fetch_page alone
MaxPhrases ==
  2

\* a page text in capitals, with doubled spaces
RawUpper ==
  <<"P","R","I","V","A","C","Y"," "," ","L","O","G","S">>

\* a block page that names the fingerprint phrase
RawBlockedPrivacy ==
  <<"p","r","i","v","a","c","y",":"," ","E","n","a","b","l","e"," ",
    "J","a","v","a","S","c","r","i","p","t">>

FetchWebs ==
  WebOutcomes
  \cup {[kind |-> "body", raw |-> r] : r \in {<<>>, RawUpper, RawBlockedPrivacy}}

Phrases ==
  {FpPrivacy,
   <<"P","r","i","v","a","c","y">>,
   <<"L","O","G","S">>,
   <<"l","o","g","s"," ","k","e","p","t">>,
   <<"t","e","r","m","s">>,
   <<"g","d","p","r">>,
   <<>>}

\* the lists of at most n phrases
RECURSIVE PhraseLists(_)
PhraseLists(n) ==
  IF n = 0 THEN {<<>>}
  ELSE PhraseLists(n - 1)
       \cup {Append(l, p) : l \in {x \in PhraseLists(n - 1) : Len(x) = n - 1},
                            p \in Phrases}

InitFetch ==
  /\ vendors = {}
  /\ pages = [p \in {} |-> <<>>]
  /\ snapshots = {}
  /\ change_events = {}
  /\ n_snap = 0
  /\ n_event = 0
  /\ calls = EmptyBag
  /\ now = 1
  /\ args \in [web : FetchWebs, fingerprint_phrases : PhraseLists(MaxPhrases)]
  /\ result = <<>>
  /\ runs = <<>>
  /\ archive_calls = <<>>
  /\ requests = {}

FetchPage ==
  /\ result = <<>>
  /\ result' = fetch_page(args.web, args.fingerprint_phrases)
  /\ UNCHANGED <<vendors, pages, snapshots, change_events, n_snap, n_event, calls, now, args,
               runs, archive_calls, requests>>

NextFetch ==
  FetchPage

SpecFetch ==
  InitFetch /\ [][NextFetch]_vars

(***************************************************************************)
(* _clean_text and _hash alone: the raw text is drawn, then it is          *)
(* normalized and hashed as fetch_page does                                *)
(***************************************************************************)
\* characters of a raw text
MaxChars ==
  5

RawChars ==
  {"a", " ", "\t", "\n"}

\* the texts of n characters
RECURSIVE TextsOfLen(_)
TextsOfLen(n) ==
  IF n = 0 THEN {<<>>}
  ELSE {Append(t, c) : t \in TextsOfLen(n - 1), c \in RawChars}

RawTexts ==
  UNION {TextsOfLen(n) : n \in 0..MaxChars}

InitClean ==
  /\ vendors = {}
  /\ pages = [p \in {} |-> <<>>]
  /\ snapshots = {}
  /\ change_events = {}
  /\ n_snap = 0
  /\ n_event = 0
  /\ calls = EmptyBag
  /\ now = 1
  /\ args \in [raw : RawTexts]
  /\ result = <<>>
  /\ runs = <<>>
  /\ archive_calls = <<>>
  /\ requests = {}

\* fetcher.py lines 107 and 120-125: text = _clean_text(text);
\* content_hash = _hash(text)
CleanAndHash ==
  /\ result = <<>>
  /\ result' = [text         |-> _clean_text(args.raw),
                content_hash |-> _hash(_clean_text(args.raw))]
  /\ UNCHANGED <<vendors, pages, snapshots, change_events, n_snap, n_event, calls,
                 now, args, runs, archive_calls, requests>>

NextClean ==
  CleanAndHash

SpecClean ==
  InitClean /\ [][NextClean]_vars

(***************************************************************************)
(* main.py: delete_vendor, delete_page, toggle_pause, check_all_pages      *)
(***************************************************************************)
\* check_all_pages calls there may be
MaxRuns ==
  1

VendorIds ==
  {"v1", "v2"}

VendorPageIds ==
  {"p1", "p2", "p3"}

\* lines 89-94: DELETE FROM vendors WHERE id=?  (watched_pages.vendor_id
\* REFERENCES vendors(id) without ON DELETE, and foreign_keys is ON)
delete_vendor(db, vendor_id) ==
  IF \E p \in DOMAIN db.pages : db.pages[p].vendor_id = vendor_id
    THEN \* IntegrityError: no commit
         [db |-> db, status |-> 500, body |-> [detail |-> "error"]]
    ELSE [db     |-> [db EXCEPT !.vendors = @ \ {vendor_id}],
          status |-> 200,
          body   |-> [ok |-> TRUE]]

\* lines 155-160: DELETE FROM watched_pages WHERE id=?  (snapshots.page_id and
\* change_events.page_id REFERENCES watched_pages(id) without ON DELETE)
delete_page(db, page_id) ==
  IF \/ \E s \in db.snapshots : s.page_id = page_id
     \/ \E e \in db.change_events : e.page_id = page_id
    THEN \* IntegrityError: no commit
         [db |-> db, status |-> 500, body |-> [detail |-> "error"]]
    ELSE [db     |-> [db EXCEPT !.pages =
                        [p \in DOMAIN db.pages \ {page_id} |-> db.pages[p]]],
          status |-> 200,
          body   |-> [ok |-> TRUE]]

\* lines 163-173
toggle_pause(db, page_id) ==
  IF page_id \notin DOMAIN db.pages
    THEN [db |-> db, status |-> 404, body |-> [detail |-> "Not Found"]]
    ELSE LET new_status == IF db.pages[page_id].status = "active"
                             THEN "paused" ELSE "active"
         IN  [db     |-> [db EXCEPT !.pages[page_id].status = new_status],
              status |-> 200,
              body   |-> [status |-> new_status]]

\* the orders the elements of S may come in
Orders(S) ==
  {s \in [1..Cardinality(S) -> S] : \A i, j \in DOMAIN s : i # j => s[i] # s[j]}

\* lines 281-285: SELECT id FROM watched_pages WHERE vendor_id=? AND
\* status='active' (no ORDER BY): the lists page_ids may be
check_all_pages_read(db, vendor_id) ==
  Orders({p \in DOMAIN db.pages : /\ db.pages[p].vendor_id = vendor_id
                                   /\ db.pages[p].status = "active"})

\* lines 278-292: a call of check_all_pages that has read page_ids
Run(vendor_id, page_ids) ==
  [vendor_id |-> vendor_id,
   page_ids  |-> page_ids,
   results   |-> <<>>,
   call      |-> <<>>,
   state     |-> IF page_ids = <<>> THEN "returned" ELSE "running",
   status    |-> IF page_ids = <<>> THEN 200 ELSE 0]

\* lines 288-290: check_page(pid) has answered o in the loop of run r; an
\* exception of check_page leaves the loop and the handler
RunAfterCheck(r, o) ==
  IF o.status # 200
    THEN [r EXCEPT !.call = <<>>, !.state = "raised", !.status = o.status]
    ELSE LET results == Append(r.results,
                               [page_id |-> r.page_ids[Len(r.results) + 1],
                                result  |-> o.body])
         IN  [r EXCEPT !.call = <<>>,
                       !.results = results,
                       !.state = IF Len(results) = Len(r.page_ids)
                                   THEN "returned" ELSE "running",
                       !.status = IF Len(results) = Len(r.page_ids) THEN 200 ELSE 0]

\* checks of the runs between their read and their write
RunsInFlight ==
  Cardinality({i \in DOMAIN runs : runs[i].call # <<>>})

\* POST /api/vendors/{vendor_id}/check-all arrives and reads the page ids
CheckAllRead(vendor_id) ==
  /\ Len(runs) < MaxRuns
  /\ \E page_ids \in check_all_pages_read(DB, vendor_id) :
       runs' = Append(runs, Run(vendor_id, page_ids))
  /\ UNCHANGED <<vendors, pages, snapshots, change_events, n_snap, n_event, calls,
                 now, args, result, archive_calls, requests>>

\* the loop of run i calls check_page for its next page, which reads
RunCheckRead(i) ==
  /\ runs[i].state = "running"
  /\ runs[i].call = <<>>
  /\ n_snap + RunsInFlight < MaxSnapshots
  /\ \E r \in check_page_read(DB, runs[i].page_ids[Len(runs[i].results) + 1]) :
       runs' = IF r.status = 404
                 THEN [runs EXCEPT ![i] = RunAfterCheck(@, r)]
                 ELSE [runs EXCEPT ![i].call =
                         <<[page_id             |-> r.page_id,
                            fingerprint_phrases |-> r.fingerprint_phrases,
                            last_snap           |-> r.last_snap]>>]
  /\ UNCHANGED <<vendors, pages, snapshots, change_events, n_snap, n_event, calls,
                 now, args, result, archive_calls, requests>>

\* the fetch of the check of run i returns; the check writes and answers
RunCheckWrite(i, web, llm) ==
  /\ runs[i].call # <<>>
  /\ \E o \in {check_page(DB, now, runs[i].call[1], web, llm)} :
       /\ Commit(o.db)
       /\ runs' = [runs EXCEPT ![i] = RunAfterCheck(@, o)]
  /\ UNCHANGED <<calls, now, args, result, archive_calls, requests>>

DeleteVendor(vendor_id) ==
  /\ Commit(delete_vendor(DB, vendor_id).db)
  /\ UNCHANGED <<calls, now, args, result, runs, archive_calls, requests>>

DeletePage(page_id) ==
  /\ Commit(delete_page(DB, page_id).db)
  /\ UNCHANGED <<calls, now, args, result, runs, archive_calls, requests>>

TogglePause(page_id) ==
  /\ Commit(toggle_pause(DB, page_id).db)
  /\ UNCHANGED <<calls, now, args, result, runs, archive_calls, requests>>

\* two vendors; the first watches two active pages and a paused one
InitVendor ==
  /\ vendors = VendorIds
  /\ pages = [p \in VendorPageIds |->
                [vendor_id           |-> "v1",
                 status              |-> IF p = "p3" THEN "paused" ELSE "active",
                 fingerprint_phrases |-> <<FpPrivacy>>,
                 last_checked        |-> NULL,
                 last_changed        |-> NULL,
                 page_moved_flag     |-> FALSE]]
  /\ snapshots = {}
  /\ change_events = {}
  /\ n_snap = 0
  /\ n_event = 0
  /\ calls = EmptyBag
  /\ now = 1
  /\ args = <<>>
  /\ result = <<>>
  /\ runs = <<>>
  /\ archive_calls = <<>>
  /\ requests = {}

NextVendor ==
  \/ \E v \in VendorIds : CheckAllRead(v)
  \/ \E i \in DOMAIN runs : RunCheckRead(i)
  \/ \E i \in DOMAIN runs, web \in WebOutcomes, llm \in LlmOutcomes :
       RunCheckWrite(i, web, llm)
  \/ \E v \in VendorIds : DeleteVendor(v)
  \/ \E p \in VendorPageIds : DeletePage(p)
  \/ TogglePause("p3")
  \/ SetManualBaseline("p1", [text |-> PasteA2, as_of_date |-> [kind |-> "none"]])

SpecVendor ==
  InitVendor /\ [][NextVendor]_vars

(***************************************************************************)
(* main.py: download_snapshot (a read: it leaves the database as it is)    *)
(***************************************************************************)
\* the query parameter version: the names of the interface, and the default
DownloadVersions ==
  {"prev", "curr", "current"}

\* lines 350-368
download_snapshot(db, event_id, version) ==
  IF \A e \in db.change_events : e.id # event_id
    THEN [status |-> 404, content |-> <<>>]
    ELSE LET event == CHOOSE e \in db.change_events : e.id = event_id
             text  == IF version = "current" THEN event.curr_text ELSE event.prev_text
         IN  IF text = <<>>
               THEN [status |-> 404, content |-> <<>>]
               ELSE [status |-> 200, content |-> text]

(***************************************************************************)
(* sources/wayback.py: find_snapshots and fetch_wayback_text.  The calls   *)
(* are coroutines of one event loop; each sleeps, sends a request, awaits  *)
(* the response, and fetch_wayback_text sleeps again before its second     *)
(* try.                                                                    *)
(***************************************************************************)
\* calls of the two functions there may be
MaxArchiveCalls ==
  2

\* the last second of the clock of the archive calls
MaxClock ==
  8

REQUEST_DELAY_SECONDS ==
  3

ArchiveFunctions ==
  {"find_snapshots", "fetch_wayback_text"}

\* a call that has just been made: it computes its parameters and sleeps
ArchiveCall(fn, t) ==
  [fn       |-> fn,
   pc       |-> "sleep",
   kind     |-> IF fn = "find_snapshots" THEN "cdx" ELSE "http",
   slept_at |-> t,
   wake     |-> t + REQUEST_DELAY_SECONDS]

\* a request to the archive: who sent it, when, and when the sleep before it
\* began
Request(i, c, t) ==
  [call |-> i, kind |-> c.kind, slept_at |-> c.slept_at, at |-> t]

\* lines 34-57 and 98-104: a call of fn starts
StartArchiveCall(fn) ==
  /\ Len(archive_calls) < MaxArchiveCalls
  /\ archive_calls' = Append(archive_calls, ArchiveCall(fn, now))
  /\ UNCHANGED <<vendors, pages, snapshots, change_events, n_snap, n_event, calls,
                 now, args, result, runs, requests>>

\* lines 59-64, 107-112, 126: asyncio.sleep has returned, the request is sent
SendRequest(i) ==
  /\ archive_calls[i].pc = "sleep"
  /\ now >= archive_calls[i].wake
  /\ requests' = requests \cup {Request(i, archive_calls[i], now)}
  /\ archive_calls' = [archive_calls EXCEPT ![i].pc = "request"]
  /\ UNCHANGED <<vendors, pages, snapshots, change_events, n_snap, n_event, calls,
                 now, args, result, runs>>

\* lines 65-95 and 113-131: the response (or an exception) comes; usable says
\* if the plain fetch gave status 200 and more than 200 characters
Response(i, usable) ==
  /\ archive_calls[i].pc = "request"
  /\ archive_calls' =
       IF archive_calls[i].kind = "http" /\ ~usable
         THEN [archive_calls EXCEPT ![i] = [@ EXCEPT !.pc = "sleep",
                                                      !.kind = "playwright",
                                                      !.slept_at = now,
                                                      !.wake = now + REQUEST_DELAY_SECONDS]]
         ELSE [archive_calls EXCEPT ![i].pc = "done"]
  /\ UNCHANGED <<vendors, pages, snapshots, change_events, n_snap, n_event, calls,
                 now, args, result, runs, requests>>

\* a second passes
TickArchive ==
  /\ now < MaxClock
  /\ now' = now + 1
  /\ UNCHANGED <<vendors, pages, snapshots, change_events, n_snap, n_event, calls,
                 args, result, runs, archive_calls, requests>>

InitWayback ==
  /\ vendors = {}
  /\ pages = [p \in {} |-> <<>>]
  /\ snapshots = {}
  /\ change_events = {}
  /\ n_snap = 0
  /\ n_event = 0
  /\ calls = EmptyBag
  /\ now = 1
  /\ args = <<>>
  /\ result = <<>>
  /\ runs = <<>>
  /\ archive_calls = <<>>
  /\ requests = {}

NextWayback ==
  \/ \E fn \in ArchiveFunctions : StartArchiveCall(fn)
  \/ \E i \in DOMAIN archive_calls : SendRequest(i)
  \/ \E i \in DOMAIN archive_calls, usable \in BOOLEAN : Response(i, usable)
  \/ TickArchive

SpecWayback ==
  InitWayback /\ [][NextWayback]_vars

(***************************************************************************)
(* Properties.  A property of a handler is stated over the outcome the     *)
(* handler has from the current state, for every call and every input of   *)
(* the step that applies it.                                               *)
(***************************************************************************)
Terminal ==
  {"confirmed", "dismissed"}

\* the bodies whose normalized text contains a block signal, whatever the case
BlockedBodies ==
  {web \in WebOutcomes :
     /\ web.kind = "body"
     /\ \E i \in 1..Len(BLOCK_SIGNALS) :
          IsSubstr(BLOCK_SIGNALS[i], Lower(_clean_text(web.raw)))}

\* the fetches that fail: blocked, timeout, or any other error
FailedFetches ==
  {web \in WebOutcomes : web.kind # "body"} \cup BlockedBodies

\* the rows the statement adds to a table
Added(before, after) ==
  after \ before

\* C1: every check_page call whose fetch succeeds with a hash that differs
\* from the hash of the page's latest snapshot creates exactly one new live
\* snapshot and exactly one ChangeEvent, whose prev and curr snapshots are
\* two distinct existing snapshots of the page with differing hashes; and no
\* transition (a prev snapshot and a new content) has two ChangeEvents.
C1_OneEventPerChange ==
  /\ \A c \in BagToSet(calls), web \in WebOutcomes, llm \in LlmOutcomes :
       \A o \in {check_page(DB, now, c, web, llm)} :
         ( /\ o.fetch.success
           /\ SnapsOf(DB, c.page_id) # {}
           /\ \A r \in LastSnapRows(DB, c.page_id) :
                r[1].content_hash # o.fetch.content_hash )
         => /\ snapshots \subseteq o.db.snapshots
            /\ \E s \in Added(snapshots, o.db.snapshots) :
                 /\ Added(snapshots, o.db.snapshots) = {s}
                 /\ s.source = "live"
            /\ change_events \subseteq o.db.change_events
            /\ \E e \in Added(change_events, o.db.change_events) :
                 /\ Added(change_events, o.db.change_events) = {e}
                 /\ \E s1, s2 \in SnapsOf(o.db, c.page_id) :
                      /\ s1.id = e.prev_snapshot_id
                      /\ s2.id = e.curr_snapshot_id
                      /\ s1.id # s2.id
                      /\ s1.content_hash # s2.content_hash
  /\ \A e1, e2 \in change_events :
       ( /\ e1.page_id = e2.page_id
         /\ e1.prev_snapshot_id = e2.prev_snapshot_id
         /\ e1.curr_text = e2.curr_text )
       => e1 = e2

\* C2: a check_page call that found its page with zero snapshots and is the
\* first to fetch successfully (no live snapshot yet), whatever happened to
\* the page since it read, answers baseline=true and changed=false, creates
\* no ChangeEvent and leaves exactly one snapshot of the page.
C2_FirstCheckIsBaseline ==
  \A c \in BagToSet(calls), web \in WebOutcomes, llm \in LlmOutcomes :
    \A o \in {check_page(DB, now, c, web, llm)} :
      ( /\ c.last_snap = <<>>
        /\ o.fetch.success
        /\ \A s \in SnapsOf(DB, c.page_id) : s.source # "live" )
      => /\ o.status = 200
         /\ o.body.changed = FALSE
         /\ "baseline" \in DOMAIN o.body
         /\ o.body.baseline = TRUE
         /\ o.db.change_events = change_events
         /\ Cardinality(SnapsOf(o.db, c.page_id)) = 1

\* C3: of two successful check_page calls on a page, one after the other
\* with nothing between them, that fetch the same normalized text, the
\* second answers changed=false and inserts no snapshot and no ChangeEvent,
\* in every reachable state.  (Each fetch takes time: the first call writes
\* a second after now, the second call a second later.)
C3_SameTextNoChange ==
  \A p \in DOMAIN pages, web1, web2 \in WebOutcomes, llm1, llm2 \in LlmOutcomes :
    \A c1 \in check_page_read(DB, p) :
      \A o1 \in {check_page(DB, now + 1, c1, web1, llm1)} :
        \A c2 \in check_page_read(o1.db, p) :
          \A o2 \in {check_page(o1.db, now + 2, c2, web2, llm2)} :
            ( /\ o1.status = 200
              /\ o1.fetch.success
              /\ o2.fetch.success
              /\ o1.fetch.text = o2.fetch.text )
            => /\ o2.status = 200
               /\ o2.body.changed = FALSE
               /\ o2.db.snapshots = o1.db.snapshots
               /\ o2.db.change_events = o1.db.change_events

\* C4: when two check_page calls in flight have read the same prior snapshot
\* of a page and both fetch the same changed content, their two writes
\* together create at most one ChangeEvent and at most one snapshot.
C4_ConcurrentChecksOneEvent ==
  \A c \in BagToSet(calls), web \in WebOutcomes, llm1, llm2 \in LlmOutcomes :
    ( /\ CopiesIn(c, calls) >= 2
      /\ c.last_snap # <<>> )
    => \A o1 \in {check_page(DB, now, c, web, llm1)} :
         \A o2 \in {check_page(o1.db, now, c, web, llm2)} :
           ( /\ o1.fetch.success
             /\ o1.fetch.content_hash # c.last_snap[1].content_hash )
           => /\ Cardinality(Added(change_events, o2.db.change_events)) <= 1
              /\ Cardinality(Added(snapshots, o2.db.snapshots)) <= 1

\* C5: when the normalized fetched text contains a block signal, in whatever
\* case, fetch_page returns success=false and blocked=true with the text
\* attached, and the check writes no snapshot and no ChangeEvent, whatever
\* the latest snapshot's hash.
C5_BlockedFetchWritesNothing ==
  \A c \in BagToSet(calls), web \in BlockedBodies, llm \in LlmOutcomes :
    \A o \in {check_page(DB, now, c, web, llm)} :
      /\ o.fetch.success = FALSE
      /\ o.fetch.blocked = TRUE
      /\ o.fetch.text = _clean_text(web.raw)
      /\ o.status = 200
      /\ o.body.changed = FALSE
      /\ o.body.blocked = TRUE
      /\ o.db.snapshots = snapshots
      /\ o.db.change_events = change_events

\* C5, its case: a call in flight that read a snapshot gets a blocked page,
\* whose hash differs from the snapshot's, and answers blocked
C5_Witness ==
  \E c \in BagToSet(calls), web \in BlockedBodies, llm \in LlmOutcomes :
    /\ c.last_snap # <<>>
    /\ c.last_snap[1].content_hash # _hash(_clean_text(web.raw))
    /\ c.last_snap[1] \in snapshots
    /\ check_page(DB, now, c, web, llm).body.blocked = TRUE

\* C6: a check_page call whose fetch fails (blocked, timeout or error)
\* reports the failure with its reason and leaves snapshots, ChangeEvents
\* and their verdicts as they are, and every column of the page except
\* last_checked and page_moved_flag, last_changed among them.
C6_FailedCheckLeavesState ==
  \A c \in BagToSet(calls), web \in FailedFetches, llm \in LlmOutcomes :
    \A o \in {check_page(DB, now, c, web, llm)} :
      /\ o.fetch.success = FALSE
      /\ o.status = 200
      /\ o.body.changed = FALSE
      /\ o.body.error = o.fetch.error
      /\ o.body.error # "None"
      /\ o.db.snapshots = snapshots
      /\ o.db.change_events = change_events
      /\ DOMAIN o.db.pages = DOMAIN pages
      /\ \A p \in DOMAIN pages :
           /\ o.db.pages[p].last_changed = pages[p].last_changed
           /\ [o.db.pages[p] EXCEPT !.last_checked = 0, !.page_moved_flag = FALSE]
                = [pages[p] EXCEPT !.last_checked = 0, !.page_moved_flag = FALSE]

\* C6, its case: the fetch of a call in flight times out when the page has
\* a reviewed event, and the write moves last_checked only
C6_Witness ==
  \E c \in BagToSet(calls), llm \in LlmOutcomes :
    /\ \E e \in change_events : e.page_id = c.page_id /\ e.user_verdict \in Terminal
    /\ pages[c.page_id].last_changed # NULL
    /\ pages[c.page_id].last_checked < now
    /\ \A o \in {check_page(DB, now, c, [kind |-> "timeout"], llm)} :
         /\ o.db.pages[c.page_id].last_checked = now
         /\ o.db.pages[c.page_id].last_changed = pages[c.page_id].last_changed

\* what the handlers do to verdicts, from the current state: check_page
\* leaves the events it finds as they are and creates pending ones;
\* set_manual_baseline leaves the events as they are; set_verdict changes
\* the event it names only, to the terminal verdict it names
HandlersOnVerdicts ==
  /\ \A c \in BagToSet(calls), web \in WebOutcomes, llm \in LlmOutcomes :
       \A o \in {check_page(DB, now, c, web, llm)} :
         /\ change_events \subseteq o.db.change_events
         /\ \A e \in Added(change_events, o.db.change_events) :
              /\ e.user_verdict = "pending"
              /\ \A f \in change_events : f.id # e.id
  /\ \A p \in PageIds, text \in PasteTexts, d \in AsOfDates :
       \A o \in {set_manual_baseline(DB, now, p, [text |-> text, as_of_date |-> d])} :
         o.db.change_events = change_events
  /\ \A event_id \in EventIds, v \in VerdictInputs :
       \A o \in {set_verdict(DB, event_id, [verdict |-> v])} :
         \A e \in Added(change_events, o.db.change_events) :
           /\ e.id = event_id
           /\ e.user_verdict = v
           /\ v \in Terminal
           /\ \E f \in change_events : e = [f EXCEPT !.user_verdict = v]

\* C7: every ChangeEvent is created pending; the verdict of an event changes
\* only in a set_verdict step on that event, to the terminal verdict the
\* step names; no check_page and no set_manual_baseline changes a verdict
\* (check_all_pages writes nothing itself: it calls check_page, main.py
\* 288-290).
C7_VerdictOnlyBySetVerdict ==
  /\ []HandlersOnVerdicts
  /\ [][ /\ \A e \in change_events' :
             (\A f \in change_events : f.id # e.id) => e.user_verdict = "pending"
        /\ \A f \in change_events, e \in change_events' :
             (e.id = f.id /\ e.user_verdict # f.user_verdict)
             => \E v \in Terminal : e.user_verdict = v /\ SetVerdict(e.id, v) ]_vars

\* C7, its case: an event has been confirmed by set_verdict, and a later
\* check of the page has left it so and created a pending one
C7_Witness ==
  \E e, g \in change_events :
    /\ e.user_verdict = "confirmed"
    /\ g.user_verdict = "pending"
    /\ e.id < g.id

\* set_verdict rejects every verdict but the two terminal ones, and leaves
\* the database as it is
InvalidVerdictRejected ==
  \A event_id \in EventIds, v \in VerdictInputs \ Terminal :
    \A o \in {set_verdict(DB, event_id, [verdict |-> v])} :
      /\ o.status = 400
      /\ o.db = DB

\* C8: set_verdict with any verdict other than 'confirmed' or 'dismissed'
\* ('pending' and the empty string among them) is rejected with an error
\* and changes no event; and no step takes an event with a terminal verdict
\* back to pending.
C8_InvalidVerdictRejected ==
  /\ []InvalidVerdictRejected
  /\ [][ \A f \in change_events, e \in change_events' :
           (e.id = f.id /\ f.user_verdict \in Terminal)
           => e.user_verdict \in Terminal ]_vars

\* C8, its case: an event is dismissed, and set_verdict 'pending' and ''
\* on it are rejected
C8_Witness ==
  \E e \in change_events :
    /\ e.user_verdict = "dismissed"
    /\ set_verdict(DB, e.id, [verdict |-> "pending"]).status = 400
    /\ set_verdict(DB, e.id, [verdict |-> ""]).status = 400

\* the high-signal phrases of the diff of the arguments
DetectedSignals ==
  _check_high_signals(_compute_diff(args.prev_text, args.curr_text).added,
                      _compute_diff(args.prev_text, args.curr_text).removed)

\* added lines + removed lines of the diff of the arguments
TotalChanges ==
  Len(_compute_diff(args.prev_text, args.curr_text).added)
  + Len(_compute_diff(args.prev_text, args.curr_text).removed)

C10_HeuristicFallback ==
  ( /\ result # <<>>
    /\ TotalChanges > 0
    /\ (args.llm.kind = "error" \/ args.llm.score = "none") )
  => result.score = IF DetectedSignals # <<>> THEN "high"
                    ELSE IF TotalChanges > 20 THEN "medium"
                    ELSE "low"

\* C10, its case: the assessor answered without a score on a diff of
\* exactly 20 lines without high-signal phrase, and the score is 'low'
C10_Witness ==
  /\ result # <<>>
  /\ args.llm.kind = "answer"
  /\ args.llm.score = "none"
  /\ TotalChanges = 20
  /\ DetectedSignals = <<>>
  /\ result.score = "low"

\* the bodies that a call in flight fetches as a change: the fetch succeeds
\* with a hash that differs from the hash of the snapshot the call read
ChangedBodies(c) ==
  {web \in WebOutcomes :
     /\ web.kind = "body"
     /\ c.last_snap # <<>>
     /\ fetch_results[web][c.fingerprint_phrases].success
     /\ fetch_results[web][c.fingerprint_phrases].content_hash
          # c.last_snap[1].content_hash}

\* an event without what the assessor contributed to it
WithoutAssessment(e) ==
  [e EXCEPT !.llm_score = "", !.diff_summary = "", !.llm_reasoning = ""]

\* what the assessor does changes nothing of a check but the assessment
AssessorIndifferent ==
  \A c \in BagToSet(calls) :
    \A web \in ChangedBodies(c) :
      \A r \in {check_page(DB, now, c, web, [kind |-> "error"])} :
        \A llm \in LlmAnswers :
         \A o \in {check_page(DB, now, c, web, llm)} :
          /\ o.status = r.status
          /\ o.db.snapshots = r.db.snapshots
          /\ o.db.pages = r.db.pages
          /\ {WithoutAssessment(e) : e \in o.db.change_events}
               = {WithoutAssessment(e) : e \in r.db.change_events}
          /\ (\A s \in snapshots : s.id # c.last_snap[1].id) <=> (o.status = 500)
          /\ o.status = 200 =>
               /\ o.body.changed = TRUE
               /\ \E s \in Added(snapshots, o.db.snapshots),
                     e \in Added(change_events, o.db.change_events) :
                    /\ s.source = "live"
                    /\ s.content_hash = o.fetch.content_hash
                    /\ e.curr_snapshot_id = s.id
                    /\ e.user_verdict = "pending"
                    /\ e.llm_score \in {"low", "medium", "high"}
                    /\ o.body.score = e.llm_score

\* C11: a check_page call that detects a hash difference ends the same way
\* whatever the assessor does (raise, answer without a score, answer): the
\* same status, snapshots and page columns, and the same event but for the
\* assessment; and when it commits, it has inserted the new snapshot and a
\* pending ChangeEvent with a score among low, medium and high.
C11_AssessorFailureStillCommits ==
  []AssessorIndifferent

\* C11, its case: a call in flight fetches a changed text, the assessor
\* raises, and the check commits a snapshot and an event
C11_Witness ==
  \E c \in BagToSet(calls) :
    \E web \in ChangedBodies(c) :
      \A o \in {check_page(DB, now, c, web, [kind |-> "error"])} :
        /\ o.status = 200
        /\ Cardinality(o.db.change_events) = Cardinality(change_events) + 1
        /\ Cardinality(o.db.snapshots) = Cardinality(snapshots) + 1

\* the normalized text of the body in the arguments of fetch_page holds a
\* block signal, whatever the case
ArgsBlocked ==
  \E i \in 1..Len(BLOCK_SIGNALS) :
    IsSubstr(BLOCK_SIGNALS[i], Lower(_clean_text(args.web.raw)))

\* a phrase of the arguments is not in the normalized text, case apart
ArgsPhraseMissing ==
  \E i \in 1..Len(args.fingerprint_phrases) :
    ~IsSubstr(Lower(args.fingerprint_phrases[i]), Lower(_clean_text(args.web.raw)))

\* C12: a fetch that is not blocked and is given fingerprint phrases
\* succeeds, with page_moved=true exactly when a phrase is not in the
\* normalized text, case apart; a blocked or failed fetch has
\* page_moved=false.
C12_PageMovedIffPhraseMissing ==
  result # <<>> =>
    IF args.web.kind = "body" /\ ~ArgsBlocked
      THEN args.fingerprint_phrases # <<>> =>
             /\ result.success = TRUE
             /\ result.blocked = FALSE
             /\ result.page_moved <=> ArgsPhraseMissing
      ELSE /\ result.success = FALSE
           /\ result.page_moved = FALSE

\* C12, its case: a page fetched with two phrases, one in the text in another
\* case and one missing, has success=true and page_moved=true
C12_Witness ==
  /\ result # <<>>
  /\ args.web.kind = "body"
  /\ Len(args.fingerprint_phrases) = 2
  /\ IsSubstr(Lower(args.fingerprint_phrases[1]), Lower(_clean_text(args.web.raw)))
  /\ ~IsSubstr(args.fingerprint_phrases[1], _clean_text(args.web.raw))
  /\ ~IsSubstr(Lower(args.fingerprint_phrases[2]), Lower(_clean_text(args.web.raw)))
  /\ result.success = TRUE
  /\ result.page_moved = TRUE

\* the pages, their page_moved_flag apart
WithoutMoved(pgs) ==
  [p \in DOMAIN pgs |-> [pgs[p] EXCEPT !.page_moved_flag = FALSE]]

\* the calls c would be with each list of fingerprint phrases
WithPhrases(c) ==
  [f \in FingerprintLists |-> [c EXCEPT !.fingerprint_phrases = f]]

\* C13: two runs of check_page from the same state that fetch the same text,
\* one with page_moved=true and one with page_moved=false, answer with the
\* same status, leave the same snapshots and change events and the same
\* pages but for page_moved_flag, which is true after the one and false after
\* the other when they commit.
C13_PageMovedAdvisory ==
  \A c \in BagToSet(calls), web \in WebOutcomes, llm \in LlmOutcomes :
    \A f \in FingerprintLists, g \in FingerprintLists :
      (/\ fetch_results[web][f].success
       /\ fetch_results[web][f].page_moved
       /\ ~fetch_results[web][g].page_moved)
      => \A o \in {check_page(DB, now, WithPhrases(c)[f], web, llm)} :
           \A r \in {check_page(DB, now, WithPhrases(c)[g], web, llm)} :
             /\ o.fetch.text = r.fetch.text
             /\ o.status = r.status
             /\ o.db.snapshots = r.db.snapshots
             /\ o.db.change_events = r.db.change_events
             /\ o.db.n_snap = r.db.n_snap
             /\ o.db.n_event = r.db.n_event
             /\ WithoutMoved(o.db.pages) = WithoutMoved(r.db.pages)
             /\ o.status = 200 =>
                  /\ o.db.pages[c.page_id].page_moved_flag = TRUE
                  /\ r.db.pages[c.page_id].page_moved_flag = FALSE
                  /\ [x \in DOMAIN o.body \ {"page_moved"} |-> o.body[x]]
                       = [x \in DOMAIN r.body \ {"page_moved"} |-> r.body[x]]

\* C13, its case: a call in flight that read a snapshot fetches another text
\* without the fingerprint phrase, and its run records a change event and
\* page_moved_flag
C13_Witness ==
  \E c \in BagToSet(calls), web \in WebOutcomes :
    /\ c.last_snap # <<>>
    /\ fetch_results[web][c.fingerprint_phrases].page_moved
    /\ \A o \in {check_page(DB, now, c, web, [kind |-> "error"])} :
         /\ o.status = 200
         /\ o.body.changed = TRUE
         /\ o.db.pages[c.page_id].page_moved_flag = TRUE
         /\ Cardinality(o.db.change_events) = Cardinality(change_events) + 1

\* the snapshots of page p in snaps that are not live
NonLive(snaps, p) ==
  {s \in snaps : s.page_id = p /\ s.source # "live"}

\* one snapshot that is not live per page, now and after set_manual_baseline
OneNonLive ==
  /\ \A p \in PageIds : Cardinality(NonLive(snapshots, p)) <= 1
  /\ \A p \in PageIds, body \in [text : PasteTexts, as_of_date : AsOfDates] :
       \A o \in {set_manual_baseline(DB, now, p, body)} :
         IF o.status = 200
           THEN /\ {s \in o.db.snapshots : s.source = "live"}
                     = {s \in snapshots : s.source = "live"}
                /\ \A q \in PageIds \ {p} :
                     NonLive(o.db.snapshots, q) = NonLive(snapshots, q)
                /\ Cardinality(NonLive(o.db.snapshots, p)) = 1
                /\ \A s \in NonLive(o.db.snapshots, p) :
                     /\ s \notin snapshots
                     /\ s.id = o.body.snapshot_id
                     /\ s.source = "manual"
                     /\ s.text_content = Strip(body.text)
           ELSE o.db.snapshots = snapshots

\* C14: each page has at most one snapshot that is not live; a
\* set_manual_baseline that answers 200 leaves the page with the new manual
\* snapshot as its only snapshot that is not live, and no set_manual_baseline
\* removes or changes a live snapshot or a snapshot of another page.
C14_OneNonLiveSnapshot ==
  []OneNonLive

\* C14, its case: the page has a live snapshot and a manual one that took
\* the place of an earlier manual one
C14_Witness ==
  /\ n_snap = 3
  /\ \E s \in snapshots, m \in snapshots :
       /\ snapshots = {s, m}
       /\ s.page_id = m.page_id
       /\ s.source = "live"
       /\ m.source = "manual"
       /\ m.id = 3

\* the page ids of the results of run r, in their order
ResultPages(r) ==
  [k \in DOMAIN r.results |-> r.results[k].page_id]

RowsOfVendor(db, v) ==
  {x \in db.snapshots \cup db.change_events :
     /\ x.page_id \in DOMAIN pages
     /\ pages[x.page_id].vendor_id = v}

\* C17: from every state delete_vendor(v) answers ok and leaves neither the
\* vendor, nor a page of it, nor a snapshot or change event of such a page.
C17_DeleteVendorCascades ==
  \A v \in vendors :
    \A o \in {delete_vendor(DB, v)} :
      /\ o.status = 200
      /\ v \notin o.db.vendors
      /\ \A p \in DOMAIN o.db.pages : o.db.pages[p].vendor_id # v
      /\ RowsOfVendor(o.db, v) = {}

\* C16: for every event, download_snapshot answers with the event's previous
\* text when version is prev, and with its current text when version is curr
\* (or the default, current).
C16_DownloadReturnsNamedVersion ==
  \A e \in change_events, version \in DownloadVersions :
    \A o \in {download_snapshot(DB, e.id, version)} :
      /\ o.status = 200
      /\ o.content = IF version = "prev" THEN e.prev_text ELSE e.curr_text

\* the writes of a change-detecting check of call c at time t are all in db
\* (more than before), or none of them is
AllOrNothing(db, c, t) ==
  \/ /\ db = DB
  \/ /\ \E s \in Added(snapshots, db.snapshots), e \in Added(change_events, db.change_events) :
          /\ Added(snapshots, db.snapshots) = {s}
          /\ Added(change_events, db.change_events) = {e}
          /\ s.source = "live"
          /\ s.page_id = c.page_id
          /\ e.curr_snapshot_id = s.id
          /\ e.prev_snapshot_id = c.last_snap[1].id
     /\ db.pages[c.page_id].last_checked = t
     /\ db.pages[c.page_id].last_changed = t

\* every change event has its current snapshot, and a check that has read a
\* snapshot and fetches another text leaves all of its writes or none,
\* whether it goes through or the storage fails after any of its statements
ChecksAtomic ==
  /\ \A e \in change_events : \E s \in snapshots : s.id = e.curr_snapshot_id
  /\ \A c \in BagToSet(calls) :
       \A web \in ChangedBodies(c), llm \in LlmOutcomes :
         /\ \A o \in {check_page(DB, now, c, web, llm)} :
              /\ AllOrNothing(o.db, c, now)
              /\ o.db = DB <=> o.status # 200
              /\ o.status = 200 =>
                   o.db = ChangeStatements(DB, now, c, o.fetch,
                            score_results[c.last_snap[1].text_content][o.fetch.text][llm],
                            4)
         /\ \A k \in FailurePoints :
              \A o \in {check_page_failed(DB, now, c, web, llm, k)} :
                /\ o.status = 500
                /\ o.db = DB

\* C18: the writes of a change-detecting check are committed together or
\* not at all: in every state every change event has its current snapshot;
\* a check that detects a change, also one whose storage fails part-way,
\* leaves either its snapshot, its event and both page timestamps or nothing;
\* and no step of a call that read a snapshot adds a snapshot without an
\* event for it, or an event without its snapshot.
C18_ChangeWritesAtomic ==
  /\ []ChecksAtomic
  /\ [][\A c \in BagToSet(calls) :
          (c.last_snap # <<>> /\ calls' = calls (-) SetToBag({c})) =>
            /\ \A s \in Added(snapshots, snapshots') :
                 \E e \in Added(change_events, change_events') :
                   e.curr_snapshot_id = s.id
            /\ \A e \in Added(change_events, change_events') :
                 \E s \in Added(snapshots, snapshots') :
                   e.curr_snapshot_id = s.id]_vars

\* C18, its case: a call in flight has read a snapshot and fetches another
\* text; it can commit its snapshot with its event, and a storage failure
\* after the snapshot insert leaves the database as it is
C18_Witness ==
  \E c \in BagToSet(calls) :
    \E web \in ChangedBodies(c) :
      /\ check_page(DB, now, c, web, [kind |-> "error"]).status = 200
      /\ Cardinality(check_page(DB, now, c, web, [kind |-> "error"]).db.snapshots)
           = Cardinality(snapshots) + 1
      /\ Cardinality(ChangeStatements(DB, now, c,
                       fetch_results[web][c.fingerprint_phrases],
                       score_results[c.last_snap[1].text_content]
                                    [fetch_results[web][c.fingerprint_phrases].text]
                                    [[kind |-> "error"]],
                       2).snapshots) = Cardinality(snapshots) + 1
      /\ check_page_failed(DB, now, c, web, [kind |-> "error"], 2).db = DB

\* C19: every request to the archive comes after a sleep of at least
\* REQUEST_DELAY_SECONDS of its call, and any two requests, of one call or of
\* two, are at least REQUEST_DELAY_SECONDS apart.
C19_ArchiveRequestsApart ==
  /\ \A r \in requests : r.at - r.slept_at >= REQUEST_DELAY_SECONDS
  /\ \A r \in requests, q \in requests :
       r # q /\ r.at <= q.at => q.at - r.at >= REQUEST_DELAY_SECONDS

\* text t with character c put in after position i (0: in front)
InsertAt(t, i, c) ==
  SubSeq(t, 1, i) \o <<c>> \o SubSeq(t, i + 1, Len(t))

\* t with an extra space next to a space
ExtraSpace(t) ==
  {InsertAt(t, i, " ") : i \in {j \in 0..Len(t) :
     \/ j >= 1 /\ t[j] = " "
     \/ j < Len(t) /\ t[j + 1] = " "}}

\* t with an extra newline next to a newline: a blank line more
ExtraBlankLine(t) ==
  {InsertAt(t, i, "\n") : i \in {j \in 0..Len(t) :
     \/ j >= 1 /\ t[j] = "\n"
     \/ j < Len(t) /\ t[j + 1] = "\n"}}

\* t with an extra newline in, or at an end of, a run of two or more
\* newlines: a blank line more where there is one
ExtraBlankLineInRun(t) ==
  {InsertAt(t, i, "\n") : i \in {j \in 0..Len(t) :
     \/ j >= 2 /\ t[j] = "\n" /\ t[j - 1] = "\n"
     \/ j + 2 <= Len(t) /\ t[j + 1] = "\n" /\ t[j + 2] = "\n"
     \/ j >= 1 /\ j < Len(t) /\ t[j] = "\n" /\ t[j + 1] = "\n"}}

\* t with white space put in front or at the end
ExtraAtEnds(t) ==
  {<<c>> \o t : c \in {" ", "\t", "\n"}} \cup {Append(t, c) : c \in {" ", "\t", "\n"}}

\* hashing the normalized text again gives the digest, normalizing it again
\* gives the same text, and the variants vs normalize to that text too
NormalizesAlike(vs) ==
  result # <<>> =>
    /\ _hash(result.text) = result.content_hash
    /\ _clean_text(result.text) = result.text
    /\ \A v \in vs :
         /\ _clean_text(v) = result.text
         /\ _hash(_clean_text(v)) = result.content_hash

\* C20 as stated: hashing twice gives the same digest, _clean_text is
\* idempotent, and a text with an extra blank line or an extra space
\* normalizes to the same text and gets the same content hash.
C20_ExtraBlankLinesAndSpaces ==
  NormalizesAlike(ExtraBlankLine(args.raw) \cup ExtraSpace(args.raw))

\* C20, amended: hashing twice gives the same digest, _clean_text is
\* idempotent, and a text with an extra newline in a run of two or more
\* newlines, an extra space next to a space, or extra white space at an end
\* normalizes to the same text and gets the same content hash.
C20_NormalizedVariantsAlike ==
  NormalizesAlike(ExtraBlankLineInRun(args.raw) \cup ExtraSpace(args.raw)
                  \cup ExtraAtEnds(args.raw))

\* C20, its case: a text with a blank line and a space between its
\* characters has been normalized and hashed, and it has variants of both
\* kinds
C20_Witness ==
  /\ result # <<>>
  /\ \E i \in 2..Len(result.text) - 2 :
       result.text[i] = "\n" /\ result.text[i + 1] = "\n"
  /\ ExtraBlankLineInRun(args.raw) # {}
  /\ ExtraSpace(args.raw) # {}
  /\ args.raw # result.text

\* text t is empty or has white space only
Blank(t) ==
  \A i \in DOMAIN t : t[i] \in {" ", "\t", "\n"}

\* blank text and unknown pages are rejected and nothing is written
BaselineRejected ==
  \A p \in PageIds, body \in [text : PasteTexts, as_of_date : AsOfDates] :
    \A o \in {set_manual_baseline(DB, now, p, body)} :
      /\ Blank(body.text) =>
           /\ o.status = 400
           /\ o.db = DB
      /\ (~Blank(body.text) /\ p \notin DOMAIN pages) =>
           /\ o.status = 404
           /\ o.db = DB
      /\ o.status \in {400, 404} => Blank(body.text) \/ p \notin DOMAIN pages

\* C21: set_manual_baseline answers 400 for a text that is empty or white
\* space only and 404 for a page id that is not a watched page, and in both
\* cases leaves the database, its snapshots included, as it is.
C21_BaselineRejections ==
  []BaselineRejected

\* C21, its case: the page has a manual snapshot and a live one, and a
\* baseline of white space and a baseline for an unknown page are rejected
C21_Witness ==
  /\ \E s \in snapshots, m \in snapshots : s.source = "live" /\ m.source = "manual"
  /\ \E d \in AsOfDates :
       /\ set_manual_baseline(DB, now, "p1",
                              [text |-> <<" ", "\n">>, as_of_date |-> d]).status = 400
       /\ set_manual_baseline(DB, now, "p9",
                              [text |-> PasteA2, as_of_date |-> d]).status = 404

\* C22: when a check_page call whose fetch succeeded decides and writes, the
\* snapshot it compares with is the latest snapshot the page has then (none
\* if the page has none), and the event it records has that snapshot as its
\* prev_snapshot.
C22_ComparesWithLatest ==
  \A c \in BagToSet(calls), web \in WebOutcomes, llm \in LlmOutcomes :
    \A o \in {check_page(DB, now, c, web, llm)} :
      o.fetch.success =>
        /\ c.last_snap \in LastSnapRows(DB, c.page_id)
        /\ \A e \in Added(change_events, o.db.change_events) :
             \E r \in LastSnapRows(DB, c.page_id) :
               r # <<>> /\ r[1].id = e.prev_snapshot_id

\* C23: of two snapshots of a page, the one inserted later (ids are handed
\* out in the order of the inserts) has the larger captured_at; so no two
\* have the same captured_at and the latest is the one inserted last.
C23_CaptureOrderIsInsertOrder ==
  \A s1 \in snapshots, s2 \in snapshots :
    (s1.page_id = s2.page_id /\ s1.id < s2.id) => s1.captured_at < s2.captured_at

\* C24: a check_page call on a watched page that answers (fetch failed,
\* blocked, baseline, unchanged or changed) leaves the page's last_checked
\* at the time of the check and its page_moved_flag at the fetch's
\* page_moved, which is false for a failed or blocked fetch; last_changed is
\* the time of the check if the check created a change event and is left as
\* it was otherwise; nothing else of the page row changes.
C24_CheckedAndMovedAlwaysWritten ==
  \A c \in BagToSet(calls), web \in WebOutcomes, llm \in LlmOutcomes :
    \A o \in {check_page(DB, now, c, web, llm)} :
      (o.status = 200 /\ c.page_id \in DOMAIN pages) =>
        /\ o.db.pages[c.page_id].last_checked = now
        /\ o.db.pages[c.page_id].page_moved_flag = o.fetch.page_moved
        /\ ~o.fetch.success => o.db.pages[c.page_id].page_moved_flag = FALSE
        /\ o.db.pages[c.page_id].last_changed
             = IF Added(change_events, o.db.change_events) # {}
                 THEN now ELSE pages[c.page_id].last_changed
        /\ o.db.pages = [pages EXCEPT
                           ![c.page_id].last_checked = now,
                           ![c.page_id].page_moved_flag = o.fetch.page_moved,
                           ![c.page_id].last_changed = o.db.pages[c.page_id].last_changed]

\* C24, its case: the page's page_moved_flag is set and it was checked
\* before now; a call in flight is blocked and clears the flag, and a call in
\* flight records a change
C24_Witness ==
  /\ pages["p1"].page_moved_flag = TRUE
  /\ pages["p1"].last_checked # NULL
  /\ pages["p1"].last_checked < now
  /\ \E c \in BagToSet(calls), web \in BlockedBodies :
       /\ check_page(DB, now, c, web, [kind |-> "error"]).status = 200
       /\ ~check_page(DB, now, c, web, [kind |-> "error"]).db.pages["p1"].page_moved_flag
  /\ \E c \in BagToSet(calls), web \in WebOutcomes :
       /\ check_page(DB, now, c, web, [kind |-> "error"]).status = 200
       /\ check_page(DB, now, c, web, [kind |-> "error"]).db.pages["p1"].last_changed = now

\* C25: when the diff of the two texts has no added and no removed line,
\* score_diff returns score low with the fixed summary and no high-signal
\* phrase, for whatever the assessor would do, and does not invoke the
\* assessor; with any other diff it does invoke it.
C25_EmptyDiffShortCircuits ==
  result # <<>> =>
    IF /\ _compute_diff(args.prev_text, args.curr_text).added = <<>>
       /\ _compute_diff(args.prev_text, args.curr_text).removed = <<>>
      THEN /\ result.score = "low"
           /\ result.summary = "No meaningful text changes detected."
           /\ result.high_signal_hits = <<>>
           /\ result.added_lines = <<>>
           /\ result.removed_lines = <<>>
           /\ result.assessor_invoked = FALSE
      ELSE result.assessor_invoked = TRUE

\* C25, its case: two texts that differ by a blank line only, and an
\* assessor that would have answered high
C25_Witness ==
  /\ result # <<>>
  /\ args.prev_text # args.curr_text
  /\ SplitLines(args.prev_text) # SplitLines(args.curr_text)
  /\ args.llm.kind = "answer"
  /\ args.llm.score = "high"
  /\ result.score = "low"
  /\ result.assessor_invoked = FALSE

\* event e with its verdict blanked
WithoutVerdict(e) ==
  [e EXCEPT !.user_verdict = ""]

\* from the current state: check_page (going through or failing) and
\* set_manual_baseline leave every event as it is; set_verdict leaves every
\* event but the one it names as it is, and of that one changes the verdict
\* only
HandlersOnEvents ==
  /\ \A c \in BagToSet(calls), web \in WebOutcomes, llm \in LlmOutcomes :
       change_events \subseteq check_page(DB, now, c, web, llm).db.change_events
  /\ \A p \in PageIds, body \in [text : PasteTexts, as_of_date : AsOfDates] :
       set_manual_baseline(DB, now, p, body).db.change_events = change_events
  /\ \A event_id \in EventIds, v \in VerdictInputs :
       \A o \in {set_verdict(DB, event_id, [verdict |-> v])} :
         /\ \A f \in change_events :
              f.id # event_id => f \in o.db.change_events
         /\ Cardinality(o.db.change_events) = Cardinality(change_events)
         /\ {WithoutVerdict(e) : e \in o.db.change_events}
              = {WithoutVerdict(f) : f \in change_events}

\* C26: an event, once created, stays, and nothing of it but user_verdict
\* ever changes: not by check_page, set_manual_baseline or set_verdict; and
\* set_verdict changes the verdict of the event it names only.
C26_EventsImmutable ==
  /\ []HandlersOnEvents
  /\ [][ /\ \A f \in change_events :
              \E e \in change_events' : WithoutVerdict(e) = WithoutVerdict(f)
         /\ \A f \in change_events, e \in change_events' :
              e.id = f.id => WithoutVerdict(e) = WithoutVerdict(f)
         /\ Cardinality({f \in change_events : f \notin change_events'}) <= 1 ]_vars

\* C26, its case: of two events one has been dismissed by set_verdict and
\* the other is still pending
C26_Witness ==
  \E e, g \in change_events :
    /\ e.id # g.id
    /\ e.user_verdict = "dismissed"
    /\ g.user_verdict = "pending"
    /\ set_verdict(DB, g.id, [verdict |-> "confirmed"]).status = 200

\* the lines of a diff that begin with sign, without the sign and trimmed
RECURSIVE MarkedLines(_, _)
MarkedLines(lines, sign) ==
  IF lines = <<>> THEN <<>>
  ELSE IF Head(lines) # <<>> /\ Head(Head(lines)) = sign
         THEN <<Strip(Tail(Head(lines)))>> \o MarkedLines(Tail(lines), sign)
         ELSE MarkedLines(Tail(lines), sign)

\* C27: _compute_diff returns as added the lines the zero-context diff marks
\* with "+" and as removed those it marks with "-", trimmed, in their order
\* and without the blank ones; of the diff only its two header lines, the
\* first two, are left out.
C27_DiffKeepsEveryChangedLine ==
  \A d \in {unified_diff(SplitLines(args.prev_text), SplitLines(args.curr_text))} :
    \A r \in {_compute_diff(args.prev_text, args.curr_text)} :
      /\ r.added = NonBlank(MarkedLines(SubSeq(d, 3, Len(d)), "+"))
      /\ r.removed = NonBlank(MarkedLines(SubSeq(d, 3, Len(d)), "-"))

\* C28: after a set_manual_baseline that answers 200, whatever its
\* as_of_date and the page's live snapshots, a check_page that comes next
\* reads the manual snapshot as the page's last one; if its fetch succeeds it
\* answers changed=false when the hashes are equal and otherwise creates an
\* event whose prev_snapshot is the manual snapshot.
C28_ManualBaselineIsCompared ==
  \A p \in PageIds, body \in [text : PasteTexts, as_of_date : AsOfDates] :
    \A o1 \in {set_manual_baseline(DB, now, p, body)} :
      o1.status = 200 =>
        \A c \in check_page_read(o1.db, p) :
          /\ c.status = 0
          /\ c.last_snap # <<>>
          /\ c.last_snap[1].id = o1.body.snapshot_id
          /\ \A web \in WebOutcomes, llm \in LlmOutcomes :
               \A o2 \in {check_page(o1.db, now + 1, c, web, llm)} :
                 o2.fetch.success =>
                   /\ o2.status = 200
                   /\ IF o2.fetch.content_hash = _hash(Strip(body.text))
                        THEN /\ o2.body.changed = FALSE
                             /\ o2.db.snapshots = o1.db.snapshots
                        ELSE \E e \in Added(o1.db.change_events, o2.db.change_events) :
                               e.prev_snapshot_id = o1.body.snapshot_id

\* C29: the text of every stored snapshot is normalized (_clean_text leaves
\* it as it is) and its content_hash is the digest of that text; and a check
\* that compares with a manual snapshot whose pasted text normalizes to the
\* text it fetches answers changed=false.
C29_SnapshotsNormalized ==
  /\ \A s \in snapshots :
       /\ _clean_text(s.text_content) = s.text_content
       /\ s.content_hash = _hash(s.text_content)
  /\ \A c \in BagToSet(calls), web \in WebOutcomes, llm \in LlmOutcomes :
       \A o \in {check_page(DB, now, c, web, llm)} :
         ( /\ c.last_snap # <<>>
           /\ c.last_snap[1].source = "manual"
           /\ o.fetch.success
           /\ _clean_text(c.last_snap[1].text_content) = o.fetch.text )
         => o.status = 200 /\ o.body.changed = FALSE

\* C30: set_manual_baseline with non-blank text for an existing page
\* succeeds in every reachable state: the page's earlier manual and archive
\* snapshots are gone, the new manual snapshot is stored, and every
\* reference of a change event to a snapshot still resolves.
C30_ManualBaselineAlwaysReplaces ==
  \A p \in DOMAIN pages, body \in [text : PasteTexts, as_of_date : AsOfDates] :
    ~Blank(body.text) =>
      \A o \in {set_manual_baseline(DB, now, p, body)} :
        /\ o.status = 200
        /\ \A s \in snapshots :
             (s.page_id = p /\ s.source \in {"manual", "wayback"})
               => s \notin o.db.snapshots
        /\ \E s \in o.db.snapshots :
             /\ s.id = o.body.snapshot_id
             /\ s.page_id = p
             /\ s.source = "manual"
             /\ s \notin snapshots
        /\ \A e \in o.db.change_events :
             EventRefsOk(e, o.db.pages, o.db.snapshots)
====
